---- MODULE Spec2Model ----
(***************************************************************************)
(* Model of the Koatl -> PyAST lowering pass                               *)
(* (coatl-core/src/transform.rs).  The pass is a recursive descent over    *)
(* the parsed AST that threads one mutable context (TfCtx: the export      *)
(* lists and the placeholder context stack) and returns, for every         *)
(* expression, a prelude of Python statements plus a Python expression.    *)
(* The recursive lowering functions are operators that take the context    *)
(* and return it with their result; the statement loop of the root block   *)
(* (SBlock::transform called by transform_ast) is the state machine.       *)
(***************************************************************************)
EXTENDS Integers, Sequences, FiniteSets, TLC

VARIABLES
    root_block,           \* the root SBlock handed to transform_ast
    treat_final_as_expr,  \* the flag handed to transform_ast
    overflow_checks,      \* whether the build panics on integer overflow
    pc,                   \* "run" inside SBlock::transform, then "done"
    stmt_idx,             \* index of the next statement of the root block
    tfctx,                \* the TfCtx
    py_stmts,             \* py_stmts of the root SBlock::transform
    errs,                 \* errs of the root SBlock::transform
    ok,                   \* ok of the root SBlock::transform
    final_,               \* final_ of the root SBlock::transform
    result                \* what transform_ast returned: "none" while running

vars == <<root_block, treat_final_as_expr, overflow_checks, pc, stmt_idx, tfctx, py_stmts, errs, ok,
          final_, result>>

(***************************************************************************)
(* Bounds of the input space.                                              *)
(***************************************************************************)
\* longest root block of the multi-statement input programs
MaxStmts == 2
\* longest item sequence of an input call, subscript, list, mapping or slice
MaxItems == 2

(***************************************************************************)
(* Identifiers.  Every identifier is a sequence of one-character strings,  *)
(* so that synthesized names are really formatted and can be matched.      *)
(***************************************************************************)
DigitChar == <<"0", "1", "2", "3", "4", "5", "6", "7", "8", "9">>

RECURSIVE Dec(_)
\* decimal formatting of a natural number ({} of format!)
Dec(n) == IF n < 10 THEN <<DigitChar[n + 1]>>
          ELSE Dec(n \div 10) \o <<DigitChar[(n % 10) + 1]>>

\* LineColCache::linecol for a one-line source: 1-based line and column
linecol(cursor) == <<1, cursor + 1>>

K_des_curs == <<"d", "e", "s", "_", "c", "u", "r", "s">>
K_des_list == <<"d", "e", "s", "_", "l", "i", "s", "t">>
K_des_len == <<"d", "e", "s", "_", "l", "e", "n">>
K_des_dict == <<"d", "e", "s", "_", "d", "i", "c", "t">>
K_ifexp == <<"i", "f", "e", "x", "p">>
K_matchexp == <<"m", "a", "t", "c", "h", "e", "x", "p">>
K_fnexp == <<"f", "n", "e", "x", "p">>
K_clsexp == <<"c", "l", "s", "e", "x", "p">>
K_tmp == <<"t", "m", "p">>
K_chk == <<"c", "h", "k">>
K_ph == <<"p", "h">>

TlPrefix == <<"_", "_", "t", "l", "_">>

\* every kind string handed to temp_var_name
TempKinds == {K_des_curs, K_des_list, K_des_len, K_des_dict, K_ifexp,
              K_matchexp, K_fnexp, K_clsexp, K_tmp, K_chk, K_ph}

\* a name formatted without the column part
temp_var_name_nocol(typ, cursor) ==
    TlPrefix \o typ \o <<"_", "l">> \o Dec(linecol(cursor)[1])
\* TfCtx::temp_var_name: format!("__tl_{}_l{}c{}", typ, line, col)
temp_var_name(typ, cursor) ==
    TlPrefix \o typ \o <<"_", "l">> \o Dec(linecol(cursor)[1])
             \o <<"c">> \o Dec(linecol(cursor)[2])

N_list == <<"l", "i", "s", "t">>
N_len == <<"l", "e", "n">>
N_dict == <<"d", "i", "c", "t">>
N_pop == <<"p", "o", "p">>
N_slice == <<"s", "l", "i", "c", "e">>
N_coalesces == <<"_", "_", "c", "o", "a", "l", "e", "s", "c", "e", "s">>
N_e == <<"_", "_", "e">>
N_Exception == <<"E", "x", "c", "e", "p", "t", "i", "o", "n">>
N_underscore == <<"_">>

(***************************************************************************)
(* Koatl AST (parser/src/ast.rs).  A node is a record: k is the variant,   *)
(* s and e the span [s, e).  Optional children are sequences of length 0   *)
(* or 1.  The constructors below build span-less shapes; Place lays a      *)
(* shape out in the source, one offset per token, the way the parser       *)
(* attaches spans: a postfix or binary node starts where its first operand *)
(* starts, a bracketed or keyword-led node one token before its first      *)
(* child.                                                                  *)
(***************************************************************************)
Literal(v) == [k |-> "Literal", s |-> 0, e |-> 0, v |-> v]
Ident(n) == [k |-> "Ident", s |-> 0, e |-> 0, name |-> n]
Placeholder == [k |-> "Placeholder", s |-> 0, e |-> 0]
List(items) == [k |-> "List", s |-> 0, e |-> 0, items |-> items]
Mapping(items) == [k |-> "Mapping", s |-> 0, e |-> 0, items |-> items]
Slice(lo, hi, st) == [k |-> "Slice", s |-> 0, e |-> 0, lo |-> lo, hi |-> hi, step |-> st]
Unary(op, x) == [k |-> "Unary", s |-> 0, e |-> 0, op |-> op, x |-> x]
Binary(op, l, r) == [k |-> "Binary", s |-> 0, e |-> 0, op |-> op, l |-> l, r |-> r]
If(c, t, el) == [k |-> "If", s |-> 0, e |-> 0, cond |-> c, then |-> t, else |-> el]
Match(subj, cases) == [k |-> "Match", s |-> 0, e |-> 0, subject |-> subj, cases |-> cases]
Call(obj, args) == [k |-> "Call", s |-> 0, e |-> 0, obj |-> obj, items |-> args]
Subscript(obj, idx) == [k |-> "Subscript", s |-> 0, e |-> 0, obj |-> obj, items |-> idx]
Attribute(obj, attr) == [k |-> "Attribute", s |-> 0, e |-> 0, obj |-> obj, attr |-> attr]
Then(obj, rhs) == [k |-> "Then", s |-> 0, e |-> 0, obj |-> obj, rhs |-> rhs]
MappedCall(obj, args) == [k |-> "MappedCall", s |-> 0, e |-> 0, obj |-> obj, items |-> args]
MappedSubscript(obj, idx) == [k |-> "MappedSubscript", s |-> 0, e |-> 0, obj |-> obj, items |-> idx]
MappedAttribute(obj, attr) == [k |-> "MappedAttribute", s |-> 0, e |-> 0, obj |-> obj, attr |-> attr]
MappedThen(obj, rhs) == [k |-> "MappedThen", s |-> 0, e |-> 0, obj |-> obj, rhs |-> rhs]
Checked(x) == [k |-> "Checked", s |-> 0, e |-> 0, x |-> x]
Fn(args, body) == [k |-> "Fn", s |-> 0, e |-> 0, items |-> args, body |-> body]
Class(bases, body) == [k |-> "Class", s |-> 0, e |-> 0, items |-> bases, body |-> body]
BlockE(b) == [k |-> "Block", s |-> 0, e |-> 0, block |-> b]

\* ListItem, MappingItem, CallItem and ArgDefItem share one record shape:
\* ik the variant, name the keyword name, key the optional mapping key or
\* argument default, x the expression
Item(x) == [ik |-> "Item", s |-> 0, e |-> 0, name |-> <<>>, key |-> <<>>, x |-> x]
Spread(x) == [ik |-> "Spread", s |-> 0, e |-> 0, name |-> <<>>, key |-> <<>>, x |-> x]
KeyItem(key, x) == [ik |-> "Item", s |-> 0, e |-> 0, name |-> <<>>, key |-> <<key>>, x |-> x]
Arg(x) == [ik |-> "Arg", s |-> 0, e |-> 0, name |-> <<>>, key |-> <<>>, x |-> x]
Kwarg(n, x) == [ik |-> "Kwarg", s |-> 0, e |-> 0, name |-> n, key |-> <<>>, x |-> x]
ArgSpread(x) == [ik |-> "ArgSpread", s |-> 0, e |-> 0, name |-> <<>>, key |-> <<>>, x |-> x]
KwargSpread(x) == [ik |-> "KwargSpread", s |-> 0, e |-> 0, name |-> <<>>, key |-> <<>>, x |-> x]
ArgDef(x, dflt) == [ik |-> "Arg", s |-> 0, e |-> 0, name |-> <<>>, key |-> dflt, x |-> x]

\* Block::Stmts and Block::Expr
Stmts(ss) == [k |-> "Stmts", s |-> 0, e |-> 0, stmts |-> ss]
ExprB(x) == [k |-> "Expr", s |-> 0, e |-> 0, x |-> x]

\* Stmt variants; mods is the Vec<AssignModifier>
SAssign(lhs, rhs, mods) == [k |-> "Assign", s |-> 0, e |-> 0, lhs |-> lhs, rhs |-> rhs, mods |-> mods]
SExpr(x, mods) == [k |-> "Expr", s |-> 0, e |-> 0, x |-> x, mods |-> mods]
SReturn(x) == [k |-> "Return", s |-> 0, e |-> 0, x |-> x]
SRaise(x) == [k |-> "Raise", s |-> 0, e |-> 0, x |-> x]
SWhile(c, body) == [k |-> "While", s |-> 0, e |-> 0, cond |-> c, body |-> body]
SFor(t, it, body) == [k |-> "For", s |-> 0, e |-> 0, target |-> t, iter |-> it, body |-> body]
SImport(trunk, leaves, star, level, reexport) ==
    [k |-> "Import", s |-> 0, e |-> 0, trunk |-> trunk, leaves |-> leaves,
     star |-> star, level |-> level, reexport |-> reexport]
STry(body, handlers, finally) ==
    [k |-> "Try", s |-> 0, e |-> 0, body |-> body, handlers |-> handlers, finally |-> finally]
\* ExceptHandler; types is <<>> or <<[single |-> .., xs |-> the type expressions]>>,
\* name is <<>> or <<identifier>>
Handler(types, name, body) == [types |-> types, name |-> name, body |-> body]
SBreak == [k |-> "Break", s |-> 0, e |-> 0]
SContinue == [k |-> "Continue", s |-> 0, e |-> 0]
SErr == [k |-> "Err", s |-> 0, e |-> 0]
SModule == [k |-> "Module", s |-> 0, e |-> 0]

Last(sq) == sq[Len(sq)]
Max(a, b) == IF a > b THEN a ELSE b

\* The layout operators call one another recursively; every call goes
\* through Layout, and the body of operator f is the definition f_body.
RECURSIVE Layout(_, _, _)
Place(x, at) == Layout("Place", x, at)
PlaceItems(items, at) == Layout("PlaceItems", items, at)
PlaceOpt(o, at) == Layout("PlaceOpt", o, at)
PlaceBlock(b, at) == Layout("PlaceBlock", b, at)
PlaceStmts(ss, at) == Layout("PlaceStmts", ss, at)
PlaceStmt(st, at) == Layout("PlaceStmt", st, at)
PlaceCases(cs, at) == Layout("PlaceCases", cs, at)
PlaceHandlers(hs, at) == Layout("PlaceHandlers", hs, at)
PlaceExprs(xs, at) == Layout("PlaceExprs", xs, at)

\* end offset of a placed sequence that began at offset at
EndOf(placed, at) == IF placed = <<>> THEN at ELSE Last(placed).e

\* an optional expression (sequence of length 0 or 1)
PlaceOpt_body(o, at) == IF o = <<>> THEN <<>> ELSE <<Place(o[1], at)>>

\* comma-separated items: a spread or keyword prefix takes one or two
\* tokens, a key or default is followed by one token
PlaceItems_body(items, at) ==
    IF items = <<>> THEN <<>>
    ELSE LET it == items[1]
             pre == IF it.ik \in {"Spread", "ArgSpread", "KwargSpread"} THEN 1
                    ELSE IF it.ik = "Kwarg" THEN 2 ELSE 0
             first == IF it.ik = "Item" /\ it.key # <<>>
                      THEN LET ky == Place(it.key[1], at)
                               xv == Place(it.x, ky.e + 1)
                           IN [it EXCEPT !.s = at, !.e = xv.e, !.key = <<ky>>, !.x = xv]
                      ELSE LET xv == Place(it.x, at + pre)
                               df == PlaceOpt(it.key, xv.e + 1)
                           IN [it EXCEPT !.s = at, !.e = EndOf(df, xv.e), !.key = df, !.x = xv]
         IN <<first>> \o PlaceItems(Tail(items), first.e + 1)

PlaceStmts_body(ss, at) ==
    IF ss = <<>> THEN <<>>
    ELSE LET first == PlaceStmt(ss[1], at)
         IN <<first>> \o PlaceStmts(Tail(ss), first.e + 1)

PlaceBlock_body(b, at) ==
    IF b.k = "Stmts"
    THEN LET ss == PlaceStmts(b.stmts, at)
         IN [b EXCEPT !.s = at, !.e = Max(at + 1, EndOf(ss, at)), !.stmts = ss]
    ELSE LET xv == Place(b.x, at)
         IN [b EXCEPT !.s = at, !.e = xv.e, !.x = xv]

\* match cases [pat |-> optional pattern, body |-> block]
PlaceCases_body(cs, at) ==
    IF cs = <<>> THEN <<>>
    ELSE LET pt == PlaceOpt(cs[1].pat, at)
             bd == PlaceBlock(cs[1].body, EndOf(pt, at) + 1)
             first == [pat |-> pt, body |-> bd]
         IN <<first>> \o PlaceCases(Tail(cs), bd.e + 1)

\* comma-separated expressions
PlaceExprs_body(xs, at) ==
    IF xs = <<>> THEN <<>>
    ELSE LET first == Place(xs[1], at)
         IN <<first>> \o PlaceExprs(Tail(xs), first.e + 1)

\* except handlers: `except`, the types, `as name`, the body
PlaceHandlers_body(hs, at) ==
    IF hs = <<>> THEN <<>>
    ELSE LET h == hs[1]
             ty == IF h.types = <<>> THEN <<>>
                   ELSE <<[h.types[1] EXCEPT !.xs = PlaceExprs(@, at + 1)]>>
             tyEnd == IF ty = <<>> THEN at + 1 ELSE EndOf(ty[1].xs, at + 1)
             bd == PlaceBlock(h.body, tyEnd + 2 * Len(h.name) + 1)
         IN <<[h EXCEPT !.types = ty, !.body = bd]>> \o PlaceHandlers(Tail(hs), bd.e + 1)

PlaceStmt_body(st, at) ==
    CASE st.k = "Assign" ->
           LET lv == Place(st.lhs, at + Len(st.mods))
               rv == Place(st.rhs, lv.e + 1)
           IN [st EXCEPT !.s = at, !.e = rv.e, !.lhs = lv, !.rhs = rv]
      [] st.k = "Expr" ->
           LET xv == Place(st.x, at + Len(st.mods))
           IN [st EXCEPT !.s = at, !.e = xv.e, !.x = xv]
      [] st.k \in {"Return", "Raise"} ->
           LET xv == Place(st.x, at + 1)
           IN [st EXCEPT !.s = at, !.e = xv.e, !.x = xv]
      [] st.k = "While" ->
           LET cv == Place(st.cond, at + 1)
               bd == PlaceBlock(st.body, cv.e + 1)
           IN [st EXCEPT !.s = at, !.e = bd.e, !.cond = cv, !.body = bd]
      [] st.k = "For" ->
           LET tv == Place(st.target, at + 1)
               iv == Place(st.iter, tv.e + 1)
               bd == PlaceBlock(st.body, iv.e + 1)
           IN [st EXCEPT !.s = at, !.e = bd.e, !.target = tv, !.iter = iv, !.body = bd]
      [] st.k = "Try" ->
           LET bd == PlaceBlock(st.body, at + 1)
               hs == PlaceHandlers(st.handlers, bd.e + 1)
               hsEnd == IF hs = <<>> THEN bd.e ELSE Last(hs).body.e
               fin == IF st.finally = <<>> THEN <<>>
                      ELSE <<PlaceBlock(st.finally[1], hsEnd + 2)>>
           IN [st EXCEPT !.s = at, !.e = EndOf(fin, hsEnd), !.body = bd, !.handlers = hs,
                         !.finally = fin]
      [] st.k = "Import" -> [st EXCEPT !.s = at, !.e = at + 2]
      [] OTHER -> [st EXCEPT !.s = at, !.e = at + 1]

Place_body(x, at) ==
    CASE x.k \in {"Literal", "Ident", "Placeholder"} ->
           [x EXCEPT !.s = at, !.e = at + 1]
      [] x.k \in {"List", "Mapping"} ->
           LET its == PlaceItems(x.items, at + 1)
           IN [x EXCEPT !.s = at, !.e = EndOf(its, at + 1) + 1, !.items = its]
      [] x.k = "Slice" ->
           LET lo == PlaceOpt(x.lo, at)
               hi == PlaceOpt(x.hi, EndOf(lo, at) + 1)
               st == PlaceOpt(x.step, EndOf(hi, EndOf(lo, at) + 1) + 1)
           IN [x EXCEPT !.s = at, !.e = EndOf(st, EndOf(hi, EndOf(lo, at) + 1) + 1),
                        !.lo = lo, !.hi = hi, !.step = st]
      [] x.k \in {"Unary", "Checked"} ->
           LET xv == Place(x.x, at + 1)
           IN [x EXCEPT !.s = at, !.e = xv.e, !.x = xv]
      [] x.k = "Binary" ->
           LET lv == Place(x.l, at)
               rv == Place(x.r, lv.e + 1)
           IN [x EXCEPT !.s = at, !.e = rv.e, !.l = lv, !.r = rv]
      [] x.k = "If" ->
           LET cv == Place(x.cond, at + 1)
               tb == PlaceBlock(x.then, cv.e + 1)
               eb == IF x.else = <<>> THEN <<>> ELSE <<PlaceBlock(x.else[1], tb.e + 1)>>
           IN [x EXCEPT !.s = at, !.e = EndOf(eb, tb.e), !.cond = cv, !.then = tb, !.else = eb]
      [] x.k = "Match" ->
           LET sv == Place(x.subject, at)
               cs == PlaceCases(x.cases, sv.e + 1)
           IN [x EXCEPT !.s = at, !.e = IF cs = <<>> THEN sv.e + 1 ELSE Last(cs).body.e,
                        !.subject = sv, !.cases = cs]
      [] x.k \in {"Call", "Subscript", "MappedCall", "MappedSubscript"} ->
           LET ov == Place(x.obj, at)
               open == ov.e + (IF x.k \in {"MappedCall", "MappedSubscript"} THEN 2 ELSE 1)
               its == PlaceItems(x.items, open)
           IN [x EXCEPT !.s = at, !.e = EndOf(its, open) + 1, !.obj = ov, !.items = its]
      [] x.k \in {"Attribute", "MappedAttribute"} ->
           LET ov == Place(x.obj, at)
           IN [x EXCEPT !.s = at, !.e = ov.e + (IF x.k = "MappedAttribute" THEN 3 ELSE 2),
                        !.obj = ov]
      [] x.k \in {"Then", "MappedThen"} ->
           LET ov == Place(x.obj, at)
               rv == Place(x.rhs, ov.e + (IF x.k = "MappedThen" THEN 3 ELSE 2))
           IN [x EXCEPT !.s = at, !.e = rv.e + 1, !.obj = ov, !.rhs = rv]
      [] x.k = "Fn" ->
           LET its == PlaceItems(x.items, at + 1)
               bd == PlaceBlock(x.body, EndOf(its, at + 1) + 2)
           IN [x EXCEPT !.s = at, !.e = bd.e, !.items = its, !.body = bd]
      [] x.k = "Class" ->
           LET its == PlaceItems(x.items, at + 2)
               bd == PlaceBlock(x.body, EndOf(its, at + 2) + 2)
           IN [x EXCEPT !.s = at, !.e = bd.e, !.items = its, !.body = bd]
      [] x.k = "Block" ->
           LET bd == PlaceBlock(x.block, at + 1)
           IN [x EXCEPT !.s = at, !.e = bd.e + 1, !.block = bd]

\* the layout operator named fn applied at offset at
Layout(fn, n, at) ==
    CASE fn = "Place" -> Place_body(n, at)
      [] fn = "PlaceItems" -> PlaceItems_body(n, at)
      [] fn = "PlaceOpt" -> PlaceOpt_body(n, at)
      [] fn = "PlaceBlock" -> PlaceBlock_body(n, at)
      [] fn = "PlaceStmts" -> PlaceStmts_body(n, at)
      [] fn = "PlaceStmt" -> PlaceStmt_body(n, at)
      [] fn = "PlaceCases" -> PlaceCases_body(n, at)
      [] fn = "PlaceHandlers" -> PlaceHandlers_body(n, at)
      [] fn = "PlaceExprs" -> PlaceExprs_body(n, at)

(***************************************************************************)
(* PyAST (py::ast).  Statements carry their span s, e; expressions carry   *)
(* the access context where Python has one.                                *)
(***************************************************************************)
PyIdentE(n, c) == [k |-> "Ident", name |-> n, ctx |-> c]
PyLoad(n) == PyIdentE(n, "Load")
PyNum(v) == [k |-> "Num", v |-> v]
PyLit(v) == [k |-> "Literal", v |-> v]
PyNone == [k |-> "None"]
PyArg(x) == [ik |-> "Arg", name |-> <<>>, key |-> <<>>, x |-> x]
PyCallE(f, args) == [k |-> "Call", f |-> f, args |-> args]
PyAttributeE(o, a, c) == [k |-> "Attribute", obj |-> o, attr |-> a, ctx |-> c]
PySubscriptE(o, i, c) == [k |-> "Subscript", obj |-> o, idx |-> i, ctx |-> c]
PySliceE(lo, hi, st) == [k |-> "Slice", lo |-> lo, hi |-> hi, step |-> st]
PyTupleE(items) == [k |-> "Tuple", items |-> items]
PyListE(items) == [k |-> "List", items |-> items]
PyDictE(items) == [k |-> "Dict", items |-> items]
PyBinaryE(op, l, r) == [k |-> "Binary", op |-> op, l |-> l, r |-> r]
PyUnaryE(op, x) == [k |-> "Unary", op |-> op, x |-> x]
PyLambdaE(args, ret) == [k |-> "Lambda", args |-> args, ret |-> ret]
PyIfExprE(test, th, el) == [k |-> "IfExpr", test |-> test, then_ |-> th, else_ |-> el]

PyAssign(t, v, sp) == [k |-> "Assign", s |-> sp[1], e |-> sp[2], target |-> t, value |-> v]
PyExprS(x, sp) == [k |-> "Expr", s |-> sp[1], e |-> sp[2], value |-> x]
PyIfS(test, body, orelse, sp) ==
    [k |-> "If", s |-> sp[1], e |-> sp[2], test |-> test, body |-> body, orelse |-> orelse]
PyWhileS(test, body, sp) == [k |-> "While", s |-> sp[1], e |-> sp[2], test |-> test, body |-> body]
PyForS(t, it, body, sp) ==
    [k |-> "For", s |-> sp[1], e |-> sp[2], target |-> t, iter |-> it, body |-> body]
PyTryS(body, handlers, sp) ==
    [k |-> "Try", s |-> sp[1], e |-> sp[2], body |-> body, handlers |-> handlers,
     finally |-> <<>>]
PyMatchS(subj, cases, sp) ==
    [k |-> "Match", s |-> sp[1], e |-> sp[2], subject |-> subj, cases |-> cases]
PyFnDef(n, args, body, decos, sp) ==
    [k |-> "FnDef", s |-> sp[1], e |-> sp[2], name |-> n, args |-> args, body |-> body,
     decorators |-> decos]
PyClassDef(n, bases, body, decos, sp) ==
    [k |-> "ClassDef", s |-> sp[1], e |-> sp[2], name |-> n, bases |-> bases, body |-> body,
     decorators |-> decos]
PyImportS(aliases, sp) == [k |-> "Import", s |-> sp[1], e |-> sp[2], aliases |-> aliases]
PyImportFromS(module, aliases, level, sp) ==
    [k |-> "ImportFrom", s |-> sp[1], e |-> sp[2], module |-> module, aliases |-> aliases,
     level |-> level]
PyGlobalS(names, sp) == [k |-> "Global", s |-> sp[1], e |-> sp[2], names |-> names]
PyNonlocalS(names, sp) == [k |-> "Nonlocal", s |-> sp[1], e |-> sp[2], names |-> names]
PyReturnS(x, sp) == [k |-> "Return", s |-> sp[1], e |-> sp[2], value |-> x]
PyRaiseS(x, sp) == [k |-> "Raise", s |-> sp[1], e |-> sp[2], value |-> x]
PyBreakS(sp) == [k |-> "Break", s |-> sp[1], e |-> sp[2]]
PyContinueS(sp) == [k |-> "Continue", s |-> sp[1], e |-> sp[2]]

SpanOf(n) == <<n.s, n.e>>

(***************************************************************************)
(* TfCtx and TfResult.  A lowering function takes the context and returns  *)
(* it in its result: ok = FALSE is Err(TfErrs), panic = TRUE a Rust panic  *)
(* (which no caller catches).                                              *)
(***************************************************************************)
\* TfCtx::new
NewCtx == [exports |-> <<>>, module_star_exports |-> <<>>, stack |-> <<>>]

TfErr(msg, sp) == [message |-> msg, s |-> sp[1], e |-> sp[2]]

\* Ok(PyExprWithPre { pre_stmts, expr })
OkE(pre, expr, ctx) ==
    [ok |-> TRUE, panic |-> FALSE, pre |-> pre, expr |-> expr, ctx |-> ctx, errs |-> <<>>]

\* TfErrBuilder::default().message(..).span(..).build_errs()
ErrE(msg, sp, ctx) ==
    [ok |-> FALSE, panic |-> FALSE, pre |-> <<>>, expr |-> PyNone, ctx |-> ctx,
     errs |-> <<TfErr(msg, sp)>>]

\* panic!(): unwinds through every caller
PanicE(ctx) ==
    [ok |-> FALSE, panic |-> TRUE, pre |-> <<>>, expr |-> PyNone, ctx |-> ctx, errs |-> <<>>]

MsgPlaceholderOutside == "Placeholder expression outside of placeholder context"
MsgNotLoad == "Expression context must be Load for this expression"
MsgMappedStore == "Internal error: Cannot use null-coalescing in a non-Load context"
MsgArgsAfterKwargs == "Cannot have args after kwargs"
MsgSpreadAfterKwargs == "Cannot have arg spread after kwargs"
MsgThenFinal == "then block must have a final expression"
MsgElseFinal == "else block must have a final expression"
MsgElseRequired == "else block is required in an if-expr"
MsgMatchFinal == "match-expr case must have a final expression"
MsgMatchDefaultLast == "match-expr default case must be the last case"
MsgMatchDefault == "match-expr must have a default case"
MsgBlockFinal == "block-expression must have a final expression"
MsgModifiers == "Modifiers are not allowed on expression statements"
MsgMultipleSpreads == "Destructuring assignment with multiple spreads is not allowed"
MsgOnlyIdents == "Only identifiers allowed in this destructuring"
MsgBadTarget == "Assignment target is not allowed"
MsgOneModifier == "Only one scope modifier is allowed in an assignment"
MsgExportTop == "Export modifier is only allowed at the top level"
MsgReexportTop == "Re-exporting imports is only allowed at the top level"
MsgStmtErr == "unexpected statement error (should have been caught in lexer)"
MsgModuleStmt == "Module statements are not allowed in the transform phase"
MsgArgIdent == "Internal error: Destructuring assignment target must be an identifier"
MsgExceptPre == "Internal error: Type in except clause cannot have pre-statements"
MsgClassSpread == "spread args are not allowed in class bases"

Front(sq) == SubSeq(sq, 1, Len(sq) - 1)

(***************************************************************************)
(* Placeholder engine.                                                     *)
(***************************************************************************)
\* The lowering functions call one another recursively.  Every call of one
\* goes through Lower, which names the function called and hands it its
\* arguments; the body of function f is the definition f_body below.
RECURSIVE Lower(_, _)
placeholder_guard(sp, inner) == Lower("placeholder_guard", <<sp, inner>>)
transform_lifted(x, ctx) == Lower("transform_lifted", <<x, ctx>>)
transform_with_deep_placeholder_guard(x, ctx) ==
    Lower("transform_with_deep_placeholder_guard", <<x, ctx>>)
make_arglist(ctx, arglist) == Lower("make_arglist", <<ctx, arglist>>)
prepare_py_fn(ctx, arglist, body, sp) == Lower("prepare_py_fn", <<ctx, arglist, body, sp>>)
make_fn_exp(ctx, arglist, body, sp) == Lower("make_fn_exp", <<ctx, arglist, body, sp>>)
make_fn_def(ctx, name, arglist, body, decorators, sp) ==
    Lower("make_fn_def", <<ctx, name, arglist, body, decorators, sp>>)
class_bases(ctx, bases, sp) == Lower("class_bases", <<ctx, bases, sp>>)
make_class_def(ctx, name, bases, body, decorators, sp) ==
    Lower("make_class_def", <<ctx, name, bases, body, decorators, sp>>)
transform_call_items(ctx, args, sp, started_kwargs) ==
    Lower("transform_call_items", <<ctx, args, sp, started_kwargs>>)
transform_list_items(ctx, items) == Lower("transform_list_items", <<ctx, items>>)
transform_subscript_items(ctx, indices, sp) ==
    Lower("transform_subscript_items", <<ctx, indices, sp>>)
transform_mapping_items(ctx, items) == Lower("transform_mapping_items", <<ctx, items>>)
postfix_node(x, lhs, aux, ctx, access_ctx) ==
    Lower("postfix_node", <<x, lhs, aux, ctx, access_ctx>>)
transform_postfix_expr(ctx, x, access_ctx) ==
    Lower("transform_postfix_expr", <<ctx, x, access_ctx>>)
transform_with_final_stmt(b, ctx) == Lower("transform_with_final_stmt", <<b, ctx>>)
transform_if_expr(ctx, x) == Lower("transform_if_expr", <<ctx, x>>)
transform_match_cases(ctx, x, i, store_ret_var, has_default_case) ==
    Lower("transform_match_cases", <<ctx, x, i, store_ret_var, has_default_case>>)
transform_match_expr(ctx, x) == Lower("transform_match_expr", <<ctx, x>>)
transform_block_expr(ctx, x) == Lower("transform_block_expr", <<ctx, x>>)
binary_operands(ctx, op, lhs, rhs) == Lower("binary_operands", <<ctx, op, lhs, rhs>>)
transform_binary(ctx, x) == Lower("transform_binary", <<ctx, x>>)
transform_unary(ctx, x) == Lower("transform_unary", <<ctx, x>>)
transform_checked(ctx, x) == Lower("transform_checked", <<ctx, x>>)
slice_bound(o, ctx) == Lower("slice_bound", <<o, ctx>>)
transform_slice_inner(ctx, x) == Lower("transform_slice_inner", <<ctx, x>>)
transform_list_inner(ctx, x) == Lower("transform_list_inner", <<ctx, x>>)
transform_mapping_inner(ctx, x) == Lower("transform_mapping_inner", <<ctx, x>>)
transform_with_access(x, ctx, access_ctx) == Lower("transform_with_access", <<x, ctx, access_ctx>>)
destructure_list_items(ctx, target, pos, seen_spread, i, decl_only) ==
    Lower("destructure_list_items", <<ctx, target, pos, seen_spread, i, decl_only>>)
destructure_list(ctx, target, decl_only) == Lower("destructure_list", <<ctx, target, decl_only>>)
destructure_mapping_items(ctx, target, pos, spread_var, decl_only) ==
    Lower("destructure_mapping_items", <<ctx, target, pos, spread_var, decl_only>>)
destructure_mapping(ctx, target, decl_only) ==
    Lower("destructure_mapping", <<ctx, target, decl_only>>)
destructure(ctx, target, decl_only) == Lower("destructure", <<ctx, target, decl_only>>)
py_decorators(ctx, decorators) == Lower("py_decorators", <<ctx, decorators>>)
plain_assignment(ctx, lhs, rhs, scope_modifier) ==
    Lower("plain_assignment", <<ctx, lhs, rhs, scope_modifier>>)
transform_assignment(ctx, lhs, rhs, scope_modifier, sp) ==
    Lower("transform_assignment", <<ctx, lhs, rhs, scope_modifier, sp>>)
transform_assign_stmt(st, ctx, top_level) == Lower("transform_assign_stmt", <<st, ctx, top_level>>)
transform_if_stmt(ctx, x, sp) == Lower("transform_if_stmt", <<ctx, x, sp>>)
transform_match_stmt_cases(ctx, x, i, sp) == Lower("transform_match_stmt_cases", <<ctx, x, i, sp>>)
transform_match_stmt(ctx, x, sp) == Lower("transform_match_stmt", <<ctx, x, sp>>)
transform_expr_stmt(st, ctx) == Lower("transform_expr_stmt", <<st, ctx>>)
transform_return_stmt(st, ctx) == Lower("transform_return_stmt", <<st, ctx>>)
transform_for_stmt(st, ctx) == Lower("transform_for_stmt", <<st, ctx>>)
transform_while_stmt(st, ctx) == Lower("transform_while_stmt", <<st, ctx>>)
except_type_items(ctx, xs) == Lower("except_type_items", <<ctx, xs>>)
try_excepts(ctx, excepts, sp) == Lower("try_excepts", <<ctx, excepts, sp>>)
transform_try_stmt(st, ctx) == Lower("transform_try_stmt", <<st, ctx>>)
SStmt_transform(st, ctx, top_level) == Lower("SStmt_transform", <<st, ctx, top_level>>)
handle_stmt(acc, st, is_top_level) == Lower("handle_stmt", <<acc, st, is_top_level>>)
handle_stmts(acc, ss, is_top_level) == Lower("handle_stmts", <<acc, ss, is_top_level>>)
final_stmt_step(acc, final_stmt, treat_final, is_top_level) ==
    Lower("final_stmt_step", <<acc, final_stmt, treat_final, is_top_level>>)
expr_block(b, ctx, treat_final, is_top_level) ==
    Lower("expr_block", <<b, ctx, treat_final, is_top_level>>)
SBlock_transform(b, ctx, treat_final, is_top_level) ==
    Lower("SBlock_transform", <<b, ctx, treat_final, is_top_level>>)

\* PlaceholderCtx::var_name
var_name(ph) == temp_var_name(K_ph, ph.s)

\* PlaceholderCtx::new pushed on ctx.placeholder_ctx_stack
PushGuard(ctx, sp) ==
    [ctx EXCEPT !.stack = Append(@, [activated |-> FALSE, s |-> sp[1], e |-> sp[2]])]

\* the single-parameter list of the synthesized lambda
PhArgs(popped) == <<[ik |-> "Arg", name |-> var_name(popped), dflt |-> <<>>]>>

\* a guard that leaves its record on the stack
placeholder_guard_unpopped(sp, inner) ==
    IF ~inner.ok THEN inner
    ELSE LET popped == Last(inner.ctx.stack)
         IN IF popped.activated
            THEN make_fn_exp(inner.ctx, [py |-> TRUE, items |-> PhArgs(popped)],
                             [py |-> TRUE, stmts |-> inner.pre \o <<PyReturnS(inner.expr, sp)>>],
                             sp)
            ELSE inner
\* placeholder_guard after the push: inner is f(ctx).  The `?` on f(ctx)
\* returns the error with the pushed record still on the stack.
placeholder_guard_body(sp, inner) ==
    IF ~inner.ok THEN inner
    ELSE LET popped == Last(inner.ctx.stack)
             ctx1 == [inner.ctx EXCEPT !.stack = Front(@)]
         IN IF popped.activated
            THEN make_fn_exp(ctx1, [py |-> TRUE, items |-> PhArgs(popped)],
                             [py |-> TRUE, stmts |-> inner.pre \o <<PyReturnS(inner.expr, sp)>>],
                             sp)
            ELSE [inner EXCEPT !.ctx = ctx1]

\* a placeholder that activates every record of the stack
transform_placeholder_all(ctx, sp, access_ctx) ==
    IF ctx.stack = <<>> THEN ErrE(MsgPlaceholderOutside, sp, ctx)
    ELSE OkE(<<>>, PyIdentE(var_name(Last(ctx.stack)), access_ctx),
             [ctx EXCEPT !.stack = [i \in 1..Len(ctx.stack) |-> [@[i] EXCEPT !.activated = TRUE]]])
\* transform_placeholder.  The shared borrow taken through the raw pointer
\* only reads the line cache, so every build names the top record's span.
transform_placeholder(ctx, sp, access_ctx) ==
    IF ctx.stack = <<>> THEN ErrE(MsgPlaceholderOutside, sp, ctx)
    ELSE OkE(<<>>, PyIdentE(var_name(Last(ctx.stack)), access_ctx),
             [ctx EXCEPT !.stack[Len(ctx.stack)].activated = TRUE])

\* SExpr::transform
transform(x, ctx) == transform_with_access(x, ctx, "Load")

\* the temporary of transform_lifted
LiftedTemp(x) == temp_var_name(K_tmp, x.s)

\* the operand lowered without a temporary
transform_unlifted(x, ctx) == transform(x, ctx)
\* SExpr::transform_lifted
transform_lifted_body(x, ctx) ==
    LET value == transform(x, ctx)
    IN IF ~value.ok THEN value
       ELSE IF x.k = "Ident" THEN value
       ELSE OkE(value.pre \o <<PyAssign(PyIdentE(LiftedTemp(x), "Store"), value.expr, SpanOf(x))>>,
                PyLoad(LiftedTemp(x)), value.ctx)

transform_with_placeholder_guard(x, ctx) ==
    placeholder_guard(SpanOf(x), transform(x, PushGuard(ctx, SpanOf(x))))

\* every item guarded on its own, `$` included
transform_with_item_guard(x, ctx) == transform_with_placeholder_guard(x, ctx)
\* SExpr::transform_with_deep_placeholder_guard
transform_with_deep_placeholder_guard_body(x, ctx) ==
    IF x.k = "Placeholder" THEN transform_placeholder(ctx, SpanOf(x), "Load")
    ELSE transform_with_placeholder_guard(x, ctx)

(***************************************************************************)
(* Function expressions and definitions.                                   *)
(***************************************************************************)
\* result of a lowering that yields several parts
OkParts(ctx, pre, post, items) ==
    [ok |-> TRUE, panic |-> FALSE, ctx |-> ctx, errs |-> <<>>, pre |-> pre, post |-> post,
     items |-> items]

\* make_arglist: arglist.py tells FnDefArgs::PyArgList from ::ArgList
make_arglist_body(ctx, arglist) ==
    IF arglist.py \/ arglist.items = <<>> THEN OkParts(ctx, <<>>, <<>>, arglist.items)
    ELSE LET arg == arglist.items[1]
             rest(c) == make_arglist(c, [py |-> FALSE, items |-> Tail(arglist.items)])
         IN IF arg.ik # "Arg"
            THEN LET t == rest(ctx)
                 IN IF ~t.ok THEN t
                    ELSE [t EXCEPT !.items = <<[ik |-> arg.ik, name |-> arg.name, dflt |-> <<>>]>> \o @]
            ELSE LET d == IF arg.key = <<>> THEN OkE(<<>>, PyNone, ctx)
                          ELSE transform_with_placeholder_guard(arg.key[1], ctx)
                 IN IF ~d.ok THEN d
                    ELSE LET des == destructure(d.ctx, arg.x, TRUE)
                         IN IF ~des.ok THEN des
                            ELSE IF des.assign_to.k # "Ident"
                            THEN ErrE(MsgArgIdent, SpanOf(arg.x), des.ctx)
                            ELSE LET t == rest(des.ctx)
                                 IN IF ~t.ok THEN t
                                    ELSE OkParts(t.ctx, d.pre \o t.pre, des.post_stmts \o t.post,
                                           <<[ik |-> "Arg", name |-> des.assign_to.name,
                                              dflt |-> IF arg.key = <<>> THEN <<>> ELSE <<d.expr>>]>>
                                           \o t.items)

\* prepare_py_fn: body.py tells FnDefBody::PyStmts from ::Block; the
\* result is (aux_stmts, body_stmts, args) as pre, post, items
prepare_py_fn_body(ctx, arglist, body, sp) ==
    LET al == make_arglist(ctx, arglist)
    IN IF ~al.ok THEN al
       ELSE IF body.py THEN OkParts(al.ctx, al.pre, al.post \o body.stmts, al.items)
       ELSE LET b == SBlock_transform(body.block, al.ctx, TRUE, FALSE)
            IN IF ~b.ok THEN b
               ELSE OkParts(b.ctx, al.pre,
                            al.post \o b.stmts \o
                              (IF b.final.t = "Expr" THEN <<PyReturnS(b.final.x[1], sp)>> ELSE <<>>),
                            al.items)

\* the pre_stmts make_fn_exp returns with a Lambda
LambdaPre(aux_stmts) == <<>>

make_fn_exp_body(ctx, arglist, body, sp) ==
    LET p == prepare_py_fn(ctx, arglist, body, sp)
    IN IF ~p.ok THEN p
       ELSE IF Len(p.post) = 1 /\ p.post[1].k = "Return"
       THEN OkE(LambdaPre(p.pre), PyLambdaE(p.items, p.post[1].value), p.ctx)
       ELSE LET name == temp_var_name(K_fnexp, sp[1])
            IN OkE(p.pre \o <<PyFnDef(name, p.items, p.post, <<>>, sp)>>, PyLoad(name), p.ctx)

\* make_fn_def: the result is the statement list
make_fn_def_body(ctx, name, arglist, body, decorators, sp) ==
    LET p == prepare_py_fn(ctx, arglist, body, sp)
    IN IF ~p.ok THEN p
       ELSE [ok |-> TRUE, panic |-> FALSE, ctx |-> p.ctx, errs |-> <<>>,
             stmts |-> p.pre \o <<PyFnDef(name, p.items, p.post, decorators, sp)>>]

\* the loop of make_class_def over the bases
class_bases_body(ctx, bases, sp) ==
    IF bases = <<>> THEN OkParts(ctx, <<>>, <<>>, <<>>)
    ELSE IF bases[1].ik \notin {"Arg", "Kwarg"} THEN ErrE(MsgClassSpread, sp, ctx)
    ELSE LET h == transform_with_placeholder_guard(bases[1].x, ctx)
         IN IF ~h.ok THEN h
            ELSE LET t == class_bases(h.ctx, Tail(bases), sp)
                 IN IF ~t.ok THEN t
                    ELSE OkParts(t.ctx, h.pre \o t.pre, <<>>,
                                 <<[ik |-> bases[1].ik, name |-> bases[1].name, key |-> <<>>,
                                    x |-> h.expr]>> \o t.items)

\* make_class_def: the result is the statement list
make_class_def_body(ctx, name, bases, body, decorators, sp) ==
    LET b == transform_with_final_stmt(body, ctx)
    IN IF ~b.ok THEN b
       ELSE LET bs == class_bases(b.ctx, bases, sp)
            IN IF ~bs.ok THEN bs
               ELSE [ok |-> TRUE, panic |-> FALSE, ctx |-> bs.ctx, errs |-> <<>>,
                     stmts |-> bs.pre \o <<PyClassDef(name, bs.items, b.stmts, decorators, sp)>>]

(***************************************************************************)
(* Call items, subscript items, list and mapping items.                    *)
(***************************************************************************)
PyItem(ik, name, x) == [ik |-> ik, name |-> name, key |-> <<>>, x |-> x]

\* the prelude of a sequence of sibling operands, in the order lowered
SeqPre(first, later) == first \o later

\* transform_call_items; started_kwargs is the loop's flag
transform_call_items_body(ctx, args, sp, started_kwargs) ==
    IF args = <<>> THEN OkParts(ctx, <<>>, <<>>, <<>>)
    ELSE LET arg == args[1]
         IN IF started_kwargs /\ arg.ik = "Arg" THEN ErrE(MsgArgsAfterKwargs, sp, ctx)
            ELSE IF started_kwargs /\ arg.ik = "ArgSpread"
            THEN ErrE(MsgSpreadAfterKwargs, sp, ctx)
            ELSE LET h == transform_with_deep_placeholder_guard(arg.x, ctx)
                 IN IF ~h.ok THEN h
                    ELSE LET t == transform_call_items(h.ctx, Tail(args), sp,
                                     started_kwargs \/ arg.ik \in {"Kwarg", "KwargSpread"})
                         IN IF ~t.ok THEN t
                            ELSE OkParts(t.ctx, SeqPre(h.pre, t.pre), <<>>,
                                         <<PyItem(arg.ik, arg.name, h.expr)>> \o t.items)

\* the items of a List (the closure of Expr::List) and the items of a
\* multi-index subscript
transform_list_items_body(ctx, items) ==
    IF items = <<>> THEN OkParts(ctx, <<>>, <<>>, <<>>)
    ELSE LET h == transform_with_deep_placeholder_guard(items[1].x, ctx)
         IN IF ~h.ok THEN h
            ELSE LET t == transform_list_items(h.ctx, Tail(items))
                 IN IF ~t.ok THEN t
                    ELSE OkParts(t.ctx, SeqPre(h.pre, t.pre), <<>>,
                                 <<PyItem(items[1].ik, <<>>, h.expr)>> \o t.items)

\* transform_subscript_items: the result expression is in items[1]
transform_subscript_items_body(ctx, indices, sp) ==
    IF Len(indices) = 1 /\ indices[1].ik = "Item"
    THEN LET h == transform_with_deep_placeholder_guard(indices[1].x, ctx)
         IN IF ~h.ok THEN h ELSE OkParts(h.ctx, h.pre, <<>>, <<h.expr>>)
    ELSE LET t == transform_list_items(ctx, indices)
         IN IF ~t.ok THEN t ELSE OkParts(t.ctx, t.pre, <<>>, <<PyTupleE(t.items)>>)

\* the prelude of one mapping item
MappingItemPre(key, value) == key.pre \o value.pre

\* the items of a Mapping (the closure of Expr::Mapping)
transform_mapping_items_body(ctx, items) ==
    IF items = <<>> THEN OkParts(ctx, <<>>, <<>>, <<>>)
    ELSE LET it == items[1]
         IN IF it.ik = "Spread"
            THEN LET h == transform_with_deep_placeholder_guard(it.x, ctx)
                 IN IF ~h.ok THEN h
                    ELSE LET t == transform_mapping_items(h.ctx, Tail(items))
                         IN IF ~t.ok THEN t
                            ELSE OkParts(t.ctx, SeqPre(h.pre, t.pre), <<>>,
                                   <<[ik |-> "Spread", name |-> <<>>, key |-> <<>>, x |-> h.expr]>>
                                   \o t.items)
            ELSE LET key == transform_with_deep_placeholder_guard(it.key[1], ctx)
                 IN IF ~key.ok THEN key
                    ELSE LET value == transform_with_deep_placeholder_guard(it.x, key.ctx)
                         IN IF ~value.ok THEN value
                            ELSE LET t == transform_mapping_items(value.ctx, Tail(items))
                                 IN IF ~t.ok THEN t
                                    ELSE OkParts(t.ctx, SeqPre(MappingItemPre(key, value), t.pre),
                                           <<>>,
                                           <<[ik |-> "Item", name |-> <<>>, key |-> <<key.expr>>,
                                              x |-> value.expr]>> \o t.items)

(***************************************************************************)
(* Postfix chains and mapped operators.                                    *)
(***************************************************************************)
MappedKinds == {"MappedAttribute", "MappedSubscript", "MappedCall", "MappedThen"}
PostfixKinds == {"Attribute", "Subscript", "Call", "Then"} \cup MappedKinds

\* guard_if_expr
guard_if_expr(lhs, step) ==
    PyIfExprE(PyCallE(PyLoad(N_coalesces), <<PyArg(lhs)>>), lhs, step)

\* the closure handed to placeholder_guard by transform_postfix_expr: aux
\* already holds the receiver's prelude, ctx the pushed guard
postfix_node_body(x, lhs, aux, ctx, access_ctx) ==
    CASE x.k \in {"Call", "MappedCall"} ->
           LET t == transform_call_items(ctx, x.items, SpanOf(x), FALSE)
           IN IF ~t.ok THEN t
              ELSE OkE(SeqPre(aux, t.pre),
                       IF x.k = "Call" THEN PyCallE(lhs, t.items)
                       ELSE guard_if_expr(lhs, PyCallE(lhs, t.items)), t.ctx)
      [] x.k \in {"Subscript", "MappedSubscript"} ->
           LET t == transform_subscript_items(ctx, x.items, SpanOf(x))
           IN IF ~t.ok THEN t
              ELSE OkE(SeqPre(aux, t.pre),
                       IF x.k = "Subscript" THEN PySubscriptE(lhs, t.items[1], access_ctx)
                       ELSE guard_if_expr(lhs, PySubscriptE(lhs, t.items[1], access_ctx)), t.ctx)
      [] x.k = "Attribute" -> OkE(aux, PyAttributeE(lhs, x.attr, access_ctx), ctx)
      [] x.k = "MappedAttribute" ->
           OkE(aux, guard_if_expr(lhs, PyAttributeE(lhs, x.attr, access_ctx)), ctx)
      [] x.k \in {"Then", "MappedThen"} ->
           LET r == transform_with_placeholder_guard(x.rhs, ctx)
           IN IF ~r.ok THEN r
              ELSE OkE(SeqPre(aux, r.pre),
                       IF x.k = "Then" THEN PyCallE(r.expr, <<PyArg(lhs)>>)
                       ELSE guard_if_expr(lhs, PyCallE(r.expr, <<PyArg(lhs)>>)), r.ctx)

\* the lowering of the receiver, lifted for the mapped forms
postfix_receiver(x, ctx) ==
    IF x.k \in MappedKinds THEN transform_lifted(x.obj, ctx) ELSE transform(x.obj, ctx)

transform_postfix_expr_body(ctx, x, access_ctx) ==
    IF x.k \in MappedKinds /\ access_ctx # "Load" THEN ErrE(MsgMappedStore, SpanOf(x), ctx)
    ELSE LET l == postfix_receiver(x, ctx)
         IN IF ~l.ok THEN l
            ELSE placeholder_guard(SpanOf(x),
                   postfix_node(x, l.expr, l.pre, PushGuard(l.ctx, SpanOf(x)), access_ctx))

(***************************************************************************)
(* If-, match- and block-expressions.                                      *)
(***************************************************************************)
\* BlockFinal
FinalExpr(x) == [t |-> "Expr", x |-> <<x>>]
FinalNever == [t |-> "Never", x |-> <<>>]
FinalNothing == [t |-> "Nothing", x |-> <<>>]

\* Ok(PyBlockWithFinal { stmts, final_ })
OkB(stmts, final, ctx) ==
    [ok |-> TRUE, panic |-> FALSE, ctx |-> ctx, errs |-> <<>>, stmts |-> stmts, final |-> final]

\* Ok(PyBlock)
OkS(stmts, ctx) == [ok |-> TRUE, panic |-> FALSE, ctx |-> ctx, errs |-> <<>>, stmts |-> stmts]

\* SBlock::transform_with_final_expr
transform_with_final_expr(b, ctx) == SBlock_transform(b, ctx, TRUE, FALSE)

\* SBlock::transform_with_final_stmt
transform_with_final_stmt_body(b, ctx) ==
    LET tr == SBlock_transform(b, ctx, FALSE, FALSE)
    IN IF ~tr.ok THEN tr
       ELSE IF tr.final.t = "Expr" THEN PanicE(tr.ctx)
       ELSE OkS(tr.stmts, tr.ctx)

\* what an arm of an if- or match-expression does with the shaped block's
\* final: the statements it appends, and whether the final is acceptable
ArmTail(final, store_ret_var, sp) ==
    IF final.t = "Expr" THEN <<PyAssign(store_ret_var, final.x[1], sp)>> ELSE <<>>
\* an arm accepted whatever its final is
ArmAccepts_any(final) == TRUE
ArmAccepts(final) == final.t \in {"Expr", "Never"}

transform_if_expr_body(ctx, x) ==
    LET sp == SpanOf(x)
        cond == transform(x.cond, ctx)
    IN IF ~cond.ok THEN cond
       ELSE LET ret_varname == temp_var_name(K_ifexp, x.s)
                store_ret_var == PyIdentE(ret_varname, "Store")
                tb == transform_with_final_expr(x.then, cond.ctx)
            IN IF ~tb.ok THEN tb
               ELSE IF ~ArmAccepts(tb.final) THEN ErrE(MsgThenFinal, SpanOf(x.then), tb.ctx)
               ELSE IF x.else = <<>> THEN ErrE(MsgElseRequired, sp, tb.ctx)
               ELSE LET eb == transform_with_final_expr(x.else[1], tb.ctx)
                    IN IF ~eb.ok THEN eb
                       ELSE IF ~ArmAccepts(eb.final)
                       THEN ErrE(MsgElseFinal, SpanOf(x.else[1]), eb.ctx)
                       ELSE OkE(cond.pre \o
                                <<PyIfS(cond.expr,
                                        tb.stmts \o ArmTail(tb.final, store_ret_var, sp),
                                        <<eb.stmts \o ArmTail(eb.final, store_ret_var, sp)>>, sp)>>,
                                PyLoad(ret_varname), eb.ctx)

\* the loop of transform_match_expr over cases[i..]; the result carries
\* the pattern preludes (pre), the PyMatchCases (items) and has_default_case
transform_match_cases_body(ctx, x, i, store_ret_var, has_default_case) ==
    IF i > Len(x.cases)
    THEN [OkParts(ctx, <<>>, <<>>, <<>>) EXCEPT !.post = has_default_case]
    ELSE LET c == x.cases[i]
             pat == IF c.pat # <<>> THEN transform_with_placeholder_guard(c.pat[1], ctx)
                    ELSE IF i # Len(x.cases)
                    THEN ErrE(MsgMatchDefaultLast, SpanOf(c.body), ctx)
                    ELSE OkE(<<>>, PyLoad(N_underscore), ctx)
         IN IF ~pat.ok THEN pat
            ELSE LET b == transform_with_final_expr(c.body, pat.ctx)
                 IN IF ~b.ok THEN b
                    ELSE IF ~ArmAccepts(b.final) THEN ErrE(MsgMatchFinal, SpanOf(c.body), b.ctx)
                    ELSE LET t == transform_match_cases(b.ctx, x, i + 1, store_ret_var,
                                     has_default_case \/ pat.expr.k = "Ident")
                         IN IF ~t.ok THEN t
                            ELSE [t EXCEPT !.pre = pat.pre \o @,
                                    !.items = <<[pattern |-> pat.expr,
                                                 body |-> b.stmts \o
                                                   ArmTail(b.final, store_ret_var, SpanOf(c.body))]>>
                                              \o @]

transform_match_expr_body(ctx, x) ==
    LET sp == SpanOf(x)
        subject == transform_with_placeholder_guard(x.subject, ctx)
    IN IF ~subject.ok THEN subject
       ELSE LET ret_varname == temp_var_name(K_matchexp, x.s)
                cs == transform_match_cases(subject.ctx, x, 1, PyIdentE(ret_varname, "Store"),
                                            FALSE)
            IN IF ~cs.ok THEN cs
               ELSE IF ~cs.post THEN ErrE(MsgMatchDefault, sp, cs.ctx)
               ELSE OkE(subject.pre \o cs.pre \o <<PyMatchS(subject.expr, cs.items, sp)>>,
                        PyLoad(ret_varname), cs.ctx)

\* Expr::Block in transform_with_access
transform_block_expr_body(ctx, x) ==
    LET b == transform_with_final_expr(x.block, ctx)
    IN IF ~b.ok THEN b
       ELSE IF b.final.t # "Expr" THEN ErrE(MsgBlockFinal, SpanOf(x.block), b.ctx)
       ELSE OkE(b.stmts, b.final.x[1], b.ctx)

(***************************************************************************)
(* Binary, unary, checked, slice.                                          *)
(***************************************************************************)
\* the operands of Expr::Binary, lowered per operator: the result is
\* <<lhs, rhs>>, or <<failure>> when a `?` fired
binary_operands_body(ctx, op, lhs, rhs) ==
    LET l == CASE op = "Pipe" -> transform_with_placeholder_guard(lhs, ctx)
               [] op = "Coalesce" -> transform_lifted(lhs, ctx)
               [] OTHER -> transform(lhs, ctx)
    IN IF ~l.ok THEN <<l>>
       ELSE LET r == IF op = "Pipe" THEN transform_with_placeholder_guard(rhs, l.ctx)
                     ELSE transform(rhs, l.ctx)
            IN IF ~r.ok THEN <<r>> ELSE <<l, r>>

\* the operand preludes in the opposite order
binary_pre_reversed(l, r) == r.pre \o l.pre
\* aux_stmts of Expr::Binary
binary_pre(l, r) == l.pre \o r.pre

\* the BinaryOp -> PyBinaryOp table
py_op(op) ==
    CASE op = "Mul" -> "Mult"
      [] op = "Exp" -> "Pow"
      [] op = "MatMul" -> "MatMult"
      [] OTHER -> op

\* the value expression of Expr::Binary
binary_value(op, l, r) ==
    CASE op = "Pipe" -> PyCallE(r.expr, <<PyArg(l.expr)>>)
      [] op = "Coalesce" ->
           PyIfExprE(PyCallE(PyLoad(N_coalesces), <<PyArg(l.expr)>>), r.expr, l.expr)
      [] OTHER -> PyBinaryE(py_op(op), l.expr, r.expr)

transform_binary_body(ctx, x) ==
    LET lr == binary_operands(ctx, x.op, x.l, x.r)
    IN IF Len(lr) = 1 THEN lr[1]
       ELSE OkE(binary_pre(lr[1], lr[2]), binary_value(x.op, lr[1], lr[2]), lr[2].ctx)

\* Expr::Unary
transform_unary_body(ctx, x) ==
    LET v == transform(x.x, ctx)
    IN IF ~v.ok THEN v
       ELSE OkE(v.pre,
                CASE x.op = "Yield" -> [k |-> "Yield", x |-> v.expr]
                  [] x.op = "YieldFrom" -> [k |-> "YieldFrom", x |-> v.expr]
                  [] OTHER -> PyUnaryE(x.op, v.expr),
                v.ctx)

\* Expr::Checked without except types
transform_checked_body(ctx, x) ==
    LET sp == SpanOf(x)
        t == transform(x.x, ctx)
    IN IF ~t.ok THEN t
       ELSE LET v == temp_var_name(K_chk, x.s)
            IN OkE(<<PyTryS(t.pre \o <<PyAssign(PyIdentE(v, "Store"), t.expr, sp)>>,
                            <<[typ |-> <<>>, name |-> N_e,
                               body |-> <<PyAssign(PyIdentE(v, "Store"), PyLoad(N_e), sp)>>]>>,
                            sp)>>,
                   PyLoad(v), t.ctx)

\* one bound of a slice: the `get` closure applied to an Option
slice_bound_body(o, ctx) ==
    IF o = <<>> THEN OkE(<<>>, PyNone, ctx)
    ELSE transform_with_deep_placeholder_guard(o[1], ctx)

\* the closure of Expr::Slice
transform_slice_inner_body(ctx, x) ==
    LET lo == slice_bound(x.lo, ctx)
    IN IF ~lo.ok THEN lo
       ELSE LET hi == slice_bound(x.hi, lo.ctx)
            IN IF ~hi.ok THEN hi
               ELSE LET st == slice_bound(x.step, hi.ctx)
                    IN IF ~st.ok THEN st
                       ELSE OkE(SeqPre(lo.pre, SeqPre(hi.pre, st.pre)),
                                PyCallE(PyLoad(N_slice),
                                        <<PyArg(lo.expr), PyArg(hi.expr), PyArg(st.expr)>>),
                                st.ctx)

\* the closure of Expr::List
transform_list_inner_body(ctx, x) ==
    LET t == transform_list_items(ctx, x.items)
    IN IF ~t.ok THEN t ELSE OkE(t.pre, PyListE(t.items), t.ctx)

\* the closure of Expr::Mapping
transform_mapping_inner_body(ctx, x) ==
    LET t == transform_mapping_items(ctx, x.items)
    IN IF ~t.ok THEN t ELSE OkE(t.pre, PyDictE(t.items), t.ctx)

(***************************************************************************)
(* SExpr::transform_with_access.                                           *)
(***************************************************************************)
transform_with_access_body(x, ctx, access_ctx) ==
    IF x.k \notin {"Attribute", "Subscript", "Ident"} /\ access_ctx # "Load"
    THEN ErrE(MsgNotLoad, SpanOf(x), ctx)
    ELSE CASE x.k = "Checked" -> transform_checked(ctx, x)
           [] x.k = "Placeholder" -> transform_placeholder(ctx, SpanOf(x), access_ctx)
           [] x.k = "Fn" -> make_fn_exp(ctx, [py |-> FALSE, items |-> x.items],
                                        [py |-> FALSE, block |-> x.body], SpanOf(x))
           [] x.k = "Class" ->
                LET name == temp_var_name(K_clsexp, x.s)
                    c == make_class_def(ctx, name, x.items, x.body, <<>>, SpanOf(x))
                IN IF ~c.ok THEN c ELSE OkE(c.stmts, PyLoad(name), c.ctx)
           [] x.k = "Literal" -> OkE(<<>>, PyLit(x.v), ctx)
           [] x.k = "Ident" -> OkE(<<>>, PyIdentE(x.name, access_ctx), ctx)
           [] x.k \in PostfixKinds -> transform_postfix_expr(ctx, x, access_ctx)
           [] x.k = "If" -> transform_if_expr(ctx, x)
           [] x.k = "Block" -> transform_block_expr(ctx, x)
           [] x.k = "Match" -> transform_match_expr(ctx, x)
           [] x.k = "Binary" -> transform_binary(ctx, x)
           [] x.k = "Unary" -> transform_unary(ctx, x)
           [] x.k = "List" ->
                placeholder_guard(SpanOf(x), transform_list_inner(PushGuard(ctx, SpanOf(x)), x))
           [] x.k = "Mapping" ->
                placeholder_guard(SpanOf(x), transform_mapping_inner(PushGuard(ctx, SpanOf(x)), x))
           [] x.k = "Slice" ->
                placeholder_guard(SpanOf(x), transform_slice_inner(PushGuard(ctx, SpanOf(x)), x))

(***************************************************************************)
(* Destructuring engine.                                                   *)
(***************************************************************************)
\* Ok(DestructureBindings { assign_to, post_stmts, declarations })
OkD(assign_to, post_stmts, declarations, ctx) ==
    [ok |-> TRUE, panic |-> FALSE, ctx |-> ctx, errs |-> <<>>, assign_to |-> assign_to,
     post_stmts |-> post_stmts, declarations |-> declarations]

\* (n as i32) negated, then to_string()
NegDec(n) == IF n = 0 THEN Dec(0) ELSE <<"-">> \o Dec(n)

\* usize::MAX, what 1 - 2 wraps to when overflow checks are off
UsizeMaxDigits ==
    <<"1", "8", "4", "4", "6", "7", "4", "4", "0", "7", "3", "7", "0", "9", "5", "5", "1",
      "6", "1", "5">>

\* (items.len() - 2).to_string() on usize
SpreadEndOffset(n) == IF n >= 2 THEN Dec(n - 2) ELSE UsizeMaxDigits

\* the subscript a regular list item is assigned from
ListItemIndex(n, i, seen_spread) == IF seen_spread THEN NegDec(n - i - 1) ELSE Dec(i)

\* the loop of destructure_list over items[pos..]; stmts are the item
\* assignments, post the nested unpacking statements
destructure_list_items_body(ctx, target, pos, seen_spread, i, decl_only) ==
    IF pos > Len(target.items) THEN OkParts(ctx, <<>>, <<>>, <<>>)
    ELSE LET sp == SpanOf(target)
             item == target.items[pos]
             n == Len(target.items)
             list_var == temp_var_name(K_des_list, target.s)
             len_var == temp_var_name(K_des_len, target.s)
         IN IF item.ik = "Spread" /\ seen_spread THEN ErrE(MsgMultipleSpreads, sp, ctx)
            ELSE LET b == destructure(ctx, item.x, decl_only)
                 IN IF ~b.ok THEN b
                    ELSE IF item.ik = "Spread" /\ n < 2 /\ overflow_checks THEN PanicE(b.ctx)
                    ELSE LET src == IF item.ik = "Spread"
                                    THEN PySubscriptE(PyLoad(list_var),
                                           PySliceE(<<PyNum(Dec(i))>>,
                                                    <<PyBinaryE("Sub", PyLoad(len_var),
                                                                PyNum(SpreadEndOffset(n)))>>,
                                                    <<>>),
                                           "Load")
                                    ELSE PySubscriptE(PyLoad(list_var),
                                           PyNum(ListItemIndex(n, i, seen_spread)), "Load")
                             t == destructure_list_items(b.ctx, target, pos + 1,
                                     seen_spread \/ item.ik = "Spread",
                                     IF item.ik = "Spread" THEN i ELSE i + 1, decl_only)
                         IN IF ~t.ok THEN t
                            ELSE [OkParts(t.ctx, <<PyAssign(b.assign_to, src, sp)>> \o t.pre,
                                          b.post_stmts \o t.post, <<>>)
                                  EXCEPT !.items = b.declarations \o t.items]

destructure_list_body(ctx, target, decl_only) ==
    LET sp == SpanOf(target)
        cursor_var == temp_var_name(K_des_curs, target.s)
        list_var == temp_var_name(K_des_list, target.s)
        len_var == temp_var_name(K_des_len, target.s)
        its == destructure_list_items(ctx, target, 1, FALSE, 0, decl_only)
    IN IF ~its.ok THEN its
       ELSE OkD(PyIdentE(cursor_var, "Store"),
                <<PyAssign(PyIdentE(list_var, "Store"),
                           PyCallE(PyLoad(N_list), <<PyArg(PyLoad(cursor_var))>>), sp),
                  PyAssign(PyIdentE(len_var, "Store"),
                           PyCallE(PyLoad(N_len), <<PyArg(PyLoad(list_var))>>), sp)>>
                \o its.pre \o its.post,
                its.items, its.ctx)

\* the loop of destructure_mapping over items[pos..]; the result's dflt
\* is the spread_var the loop found (or the one passed in)
destructure_mapping_items_body(ctx, target, pos, spread_var, decl_only) ==
    IF pos > Len(target.items)
    THEN OkParts(ctx, <<>>, <<>>, <<>>) @@ [spread_var |-> spread_var]
    ELSE LET sp == SpanOf(target)
             item == target.items[pos]
             dict_var == temp_var_name(K_des_dict, target.s)
         IN IF item.ik = "Spread"
            THEN IF spread_var # <<>> THEN ErrE(MsgMultipleSpreads, sp, ctx)
                 ELSE destructure_mapping_items(ctx, target, pos + 1, <<item.x>>, decl_only)
            ELSE LET b == destructure(ctx, item.x, decl_only)
                 IN IF ~b.ok THEN b
                    ELSE LET key_node == transform(item.key[1], b.ctx)
                         IN IF ~key_node.ok THEN key_node
                            ELSE LET t == destructure_mapping_items(key_node.ctx, target, pos + 1,
                                             spread_var, decl_only)
                                 IN IF ~t.ok THEN t
                                    ELSE [t EXCEPT
                                           !.pre = <<PyAssign(b.assign_to,
                                                      PyCallE(PyAttributeE(PyLoad(dict_var), N_pop,
                                                                           "Load"),
                                                              <<PyArg(key_node.expr)>>), sp)>> \o @,
                                           !.post = key_node.pre \o b.post_stmts \o @,
                                           !.items = b.declarations \o @]

\* a mapping destructuring that assigns the rest before the pops
destructure_mapping_rest_first(ctx, target, decl_only) ==
    LET sp == SpanOf(target)
        cursor_var == temp_var_name(K_des_curs, target.s)
        dict_var == temp_var_name(K_des_dict, target.s)
        head == <<PyAssign(PyIdentE(dict_var, "Store"),
                           PyCallE(PyLoad(N_dict), <<PyArg(PyLoad(cursor_var))>>), sp)>>
        its == destructure_mapping_items(ctx, target, 1, <<>>, decl_only)
    IN IF ~its.ok THEN its
       ELSE IF its.spread_var = <<>>
       THEN OkD(PyIdentE(cursor_var, "Store"), head \o its.pre \o its.post, its.items, its.ctx)
       ELSE LET b == destructure(its.ctx, its.spread_var[1], decl_only)
            IN IF ~b.ok THEN b
               ELSE OkD(PyIdentE(cursor_var, "Store"),
                        head \o <<PyAssign(b.assign_to, PyLoad(dict_var), sp)>> \o its.pre
                             \o its.post \o b.post_stmts,
                        its.items \o b.declarations, b.ctx)

destructure_mapping_body(ctx, target, decl_only) ==
    LET sp == SpanOf(target)
        cursor_var == temp_var_name(K_des_curs, target.s)
        dict_var == temp_var_name(K_des_dict, target.s)
        head == <<PyAssign(PyIdentE(dict_var, "Store"),
                           PyCallE(PyLoad(N_dict), <<PyArg(PyLoad(cursor_var))>>), sp)>>
        its == destructure_mapping_items(ctx, target, 1, <<>>, decl_only)
    IN IF ~its.ok THEN its
       ELSE IF its.spread_var = <<>>
       THEN OkD(PyIdentE(cursor_var, "Store"), head \o its.pre \o its.post, its.items, its.ctx)
       ELSE LET b == destructure(its.ctx, its.spread_var[1], decl_only)
            IN IF ~b.ok THEN b
               ELSE OkD(PyIdentE(cursor_var, "Store"),
                        head \o its.pre \o <<PyAssign(b.assign_to, PyLoad(dict_var), sp)>>
                             \o its.post \o b.post_stmts,
                        its.items \o b.declarations, b.ctx)

destructure_body(ctx, target, decl_only) ==
    CASE target.k \in {"Ident", "Attribute", "Subscript"} ->
           IF target.k # "Ident" /\ decl_only THEN ErrE(MsgOnlyIdents, SpanOf(target), ctx)
           ELSE LET target_node == transform_with_access(target, ctx, "Store")
                IN IF ~target_node.ok THEN target_node
                   ELSE OkD(target_node.expr, target_node.pre,
                            IF target.k = "Ident" THEN <<target.name>> ELSE <<>>,
                            target_node.ctx)
      [] target.k = "List" -> destructure_list(ctx, target, decl_only)
      [] target.k = "Mapping" -> destructure_mapping(ctx, target, decl_only)
      [] OTHER -> ErrE(MsgBadTarget, SpanOf(target), ctx)

(***************************************************************************)
(* Statement lowering.                                                     *)
(***************************************************************************)
\* a scope modifier check that lets Export through at every level
get_scope_modifier_anywhere(mods, is_top_level, sp, ctx) ==
    IF Len(mods) > 1 THEN ErrE(MsgOneModifier, sp, ctx)
    ELSE OkParts(ctx, <<>>, <<>>, mods)
\* get_scope_modifier: the result's items is the Option<&AssignModifier>
get_scope_modifier(mods, is_top_level, sp, ctx) ==
    IF Len(mods) > 1 THEN ErrE(MsgOneModifier, sp, ctx)
    ELSE IF ~is_top_level /\ mods # <<>> /\ mods[1] = "Export" THEN ErrE(MsgExportTop, sp, ctx)
    ELSE OkParts(ctx, <<>>, <<>>, mods)

\* an export list that takes only the first declared name
ExportDecls_first(exports, decls) ==
    exports \o (IF decls = <<>> THEN <<>> ELSE <<decls[1]>>)
\* what an Export modifier does to ctx.exports
ExportDecls(exports, decls) == exports \o decls

\* get_scope_modifying_statements
get_scope_modifying_statements(ctx, scope_modifier, decls, sp) ==
    IF scope_modifier = <<>> THEN OkS(<<>>, ctx)
    ELSE CASE scope_modifier[1] = "Export" ->
                OkS(<<>>, [ctx EXCEPT !.exports = ExportDecls(@, decls)])
           [] scope_modifier[1] = "Global" -> OkS(<<PyGlobalS(decls, sp)>>, ctx)
           [] scope_modifier[1] = "Nonlocal" -> OkS(<<PyNonlocalS(decls, sp)>>, ctx)

RECURSIVE peel_decorators_innermost_first(_, _)
\* a peeling that lists the innermost wrapper first
peel_decorators_innermost_first(cur_node, decorators) ==
    CASE cur_node.k = "Then" ->
           peel_decorators_innermost_first(cur_node.obj, <<cur_node.rhs>> \o decorators)
      [] cur_node.k = "Binary" /\ cur_node.op = "Pipe" ->
           peel_decorators_innermost_first(cur_node.l, <<cur_node.r>> \o decorators)
      [] cur_node.k = "Call" /\ Len(cur_node.items) = 1 /\ cur_node.items[1].ik = "Arg" ->
           peel_decorators_innermost_first(cur_node.items[1].x, <<cur_node.obj>> \o decorators)
      [] OTHER -> <<cur_node, decorators>>

RECURSIVE peel_decorators_pipe_right(_, _)
\* a peeling that takes the left operand of a Pipe for the decorator
peel_decorators_pipe_right(cur_node, decorators) ==
    CASE cur_node.k = "Then" ->
           peel_decorators_pipe_right(cur_node.obj, Append(decorators, cur_node.rhs))
      [] cur_node.k = "Binary" /\ cur_node.op = "Pipe" ->
           peel_decorators_pipe_right(cur_node.r, Append(decorators, cur_node.l))
      [] cur_node.k = "Call" /\ Len(cur_node.items) = 1 /\ cur_node.items[1].ik = "Arg" ->
           peel_decorators_pipe_right(cur_node.items[1].x, Append(decorators, cur_node.obj))
      [] OTHER -> <<cur_node, decorators>>

RECURSIVE peel_decorators(_, _)
\* the loop of transform_assignment that peels Then, Pipe and
\* single-argument Call wrappers: <<cur_node, decorators>>
peel_decorators(cur_node, decorators) ==
    CASE cur_node.k = "Then" -> peel_decorators(cur_node.obj, Append(decorators, cur_node.rhs))
      [] cur_node.k = "Binary" /\ cur_node.op = "Pipe" ->
           peel_decorators(cur_node.l, Append(decorators, cur_node.r))
      [] cur_node.k = "Call" /\ Len(cur_node.items) = 1 /\ cur_node.items[1].ik = "Arg" ->
           peel_decorators(cur_node.items[1].x, Append(decorators, cur_node.obj))
      [] OTHER -> <<cur_node, decorators>>

\* the py_decorators closure: the decorators lowered in order, their
\* preludes collected in pre
py_decorators_body(ctx, decorators) ==
    IF decorators = <<>> THEN OkParts(ctx, <<>>, <<>>, <<>>)
    ELSE LET t == transform_with_placeholder_guard(decorators[1], ctx)
         IN IF ~t.ok THEN t
            ELSE LET r == py_decorators(t.ctx, Tail(decorators))
                 IN IF ~r.ok THEN r
                    ELSE OkParts(r.ctx, t.pre \o r.pre, <<>>, <<t.expr>> \o r.items)

\* Ok((PyBlock, Vec<PyIdent>))
OkA(stmts, decls, ctx) ==
    [ok |-> TRUE, panic |-> FALSE, ctx |-> ctx, errs |-> <<>>, stmts |-> stmts, decls |-> decls]

\* the tail of transform_assignment: an ordinary assignment
plain_assignment_body(ctx, lhs, rhs, scope_modifier) ==
    LET value_node == transform_with_placeholder_guard(rhs, ctx)
    IN IF ~value_node.ok THEN value_node
       ELSE LET d == destructure(value_node.ctx, lhs, scope_modifier # <<>>)
            IN IF ~d.ok THEN d
               ELSE OkA(value_node.pre
                          \o <<PyAssign(d.assign_to, value_node.expr, SpanOf(lhs))>>
                          \o d.post_stmts,
                        d.declarations, d.ctx)

transform_assignment_body(ctx, lhs, rhs, scope_modifier, sp) ==
    LET peeled == peel_decorators(rhs, <<>>)
    IN IF lhs.k = "Ident" /\ peeled[1].k = "Fn"
       THEN LET decos == py_decorators(ctx, peeled[2])
            IN IF ~decos.ok THEN decos
               ELSE LET f == make_fn_def(decos.ctx, lhs.name,
                                         [py |-> FALSE, items |-> peeled[1].items],
                                         [py |-> FALSE, block |-> peeled[1].body],
                                         decos.items, sp)
                    IN IF ~f.ok THEN f ELSE OkA(f.stmts, <<lhs.name>>, f.ctx)
       ELSE IF lhs.k = "Ident" /\ peeled[1].k = "Class"
       THEN LET decos == py_decorators(ctx, peeled[2])
            IN IF ~decos.ok THEN decos
               ELSE LET c == make_class_def(decos.ctx, lhs.name, peeled[1].items, peeled[1].body,
                                            decos.items, sp)
                    IN IF ~c.ok THEN c ELSE OkA(c.stmts, <<lhs.name>>, c.ctx)
       ELSE plain_assignment(ctx, lhs, rhs, scope_modifier)

\* Stmt::Assign
transform_assign_stmt_body(st, ctx, top_level) ==
    LET sp == SpanOf(st)
        m == get_scope_modifier(st.mods, top_level, sp, ctx)
    IN IF ~m.ok THEN m
       ELSE LET a == transform_assignment(ctx, st.lhs, st.rhs, m.items, sp)
            IN IF ~a.ok THEN a
               ELSE LET g == get_scope_modifying_statements(a.ctx, m.items, a.decls, sp)
                    IN OkS(g.stmts \o a.stmts, g.ctx)

transform_if_stmt_body(ctx, x, sp) ==
    LET cond == transform_with_placeholder_guard(x.cond, ctx)
    IN IF ~cond.ok THEN cond
       ELSE LET tb == transform_with_final_stmt(x.then, cond.ctx)
            IN IF ~tb.ok THEN tb
               ELSE IF x.else = <<>>
               THEN OkS(<<PyIfS(cond.expr, tb.stmts, <<>>, sp)>>, tb.ctx)
               ELSE LET eb == transform_with_final_stmt(x.else[1], tb.ctx)
                    IN IF ~eb.ok THEN eb
                       ELSE OkS(<<PyIfS(cond.expr, tb.stmts, <<eb.stmts>>, sp)>>, eb.ctx)

\* the loop of transform_match_stmt over cases[i..]
transform_match_stmt_cases_body(ctx, x, i, sp) ==
    IF i > Len(x.cases) THEN OkParts(ctx, <<>>, <<>>, <<>>)
    ELSE LET c == x.cases[i]
             pat == IF c.pat # <<>> THEN transform_with_placeholder_guard(c.pat[1], ctx)
                    ELSE OkE(<<>>, PyLoad(N_underscore), ctx)
         IN IF ~pat.ok THEN pat
            ELSE LET b == transform_with_final_stmt(c.body, pat.ctx)
                 IN IF ~b.ok THEN b
                    ELSE LET t == transform_match_stmt_cases(b.ctx, x, i + 1, sp)
                         IN IF ~t.ok THEN t
                            ELSE [t EXCEPT !.pre = pat.pre \o @,
                                    !.items = <<[pattern |-> pat.expr, body |-> b.stmts]>> \o @]

transform_match_stmt_body(ctx, x, sp) ==
    LET subject == transform_with_placeholder_guard(x.subject, ctx)
    IN IF ~subject.ok THEN subject
       ELSE LET cs == transform_match_stmt_cases(subject.ctx, x, 1, sp)
            IN IF ~cs.ok THEN cs
               ELSE OkS(subject.pre \o cs.pre \o <<PyMatchS(subject.expr, cs.items, sp)>>,
                        cs.ctx)

\* Stmt::Expr
transform_expr_stmt_body(st, ctx) ==
    IF st.mods # <<>> THEN ErrE(MsgModifiers, SpanOf(st), ctx)
    ELSE CASE st.x.k = "If" -> transform_if_stmt(ctx, st.x, SpanOf(st))
           [] st.x.k = "Match" -> transform_match_stmt(ctx, st.x, SpanOf(st))
           [] OTHER ->
                LET v == transform_with_placeholder_guard(st.x, ctx)
                IN IF ~v.ok THEN v
                   ELSE OkS(v.pre \o <<PyExprS(v.expr, SpanOf(st))>>, v.ctx)

\* Stmt::Return and Stmt::Raise
transform_return_stmt_body(st, ctx) ==
    LET v == transform_with_placeholder_guard(st.x, ctx)
    IN IF ~v.ok THEN v
       ELSE OkS(v.pre \o <<IF st.k = "Return" THEN PyReturnS(v.expr, SpanOf(st))
                           ELSE PyRaiseS(v.expr, SpanOf(st))>>, v.ctx)

\* Stmt::For
transform_for_stmt_body(st, ctx) ==
    LET iter_node == transform_with_placeholder_guard(st.iter, ctx)
    IN IF ~iter_node.ok THEN iter_node
       ELSE LET d == destructure(iter_node.ctx, st.target, TRUE)
            IN IF ~d.ok THEN d
               ELSE LET body == transform_with_final_stmt(st.body, d.ctx)
                    IN IF ~body.ok THEN body
                       ELSE OkS(iter_node.pre
                                \o <<PyForS(d.assign_to, iter_node.expr,
                                            d.post_stmts \o body.stmts, SpanOf(st))>>,
                                body.ctx)

\* the head of the emitted while: the lowered condition, or a call of the
\* function synthesized from its prelude
while_cond(cond_node, aux_fn) ==
    IF cond_node.pre = <<>> THEN cond_node.expr ELSE PyCallE(aux_fn.expr, <<>>)

\* Stmt::While
transform_while_stmt_body(st, ctx) ==
    LET cond_node == transform_with_placeholder_guard(st.cond, ctx)
    IN IF ~cond_node.ok THEN cond_node
       ELSE LET body == transform_with_final_stmt(st.body, cond_node.ctx)
            IN IF ~body.ok THEN body
               ELSE LET aux_fn == IF cond_node.pre = <<>> THEN OkE(<<>>, PyNone, body.ctx)
                                  ELSE make_fn_exp(body.ctx, [py |-> TRUE, items |-> <<>>],
                                                   [py |-> TRUE, stmts |-> cond_node.pre],
                                                   SpanOf(st))
                    IN OkS(aux_fn.pre \o <<PyWhileS(while_cond(cond_node, aux_fn), body.stmts,
                                                     SpanOf(st))>>,
                           aux_fn.ctx)

RECURSIVE Join(_)
\* Vec<&str>::join(".")
Join(names) ==
    IF names = <<>> THEN <<>>
    ELSE IF Len(names) = 1 THEN names[1]
    ELSE names[1] \o <<".">> \o Join(Tail(names))

\* ".".repeat(level)
Dots(level) == [i \in 1..level |-> "."]

\* the module name recorded for `export import ... *`
full_module(st) == Dots(st.level) \o Join(st.trunk)

\* PyImportAlias of one leaf
ImportAlias(leaf) == [name |-> leaf.name, as_name |-> leaf.alias]

\* alias else orig_name
EffectiveName(alias) == IF alias.as_name # <<>> THEN alias.as_name[1] ELSE alias.name

\* Stmt::Import
transform_import_stmt(st, ctx, top_level) ==
    IF st.reexport /\ ~top_level THEN ErrE(MsgReexportTop, SpanOf(st), ctx)
    ELSE LET aliases == IF st.star THEN <<[name |-> <<"*">>, as_name |-> <<>>]>>
                        ELSE [i \in 1..Len(st.leaves) |-> ImportAlias(st.leaves[i])]
             ctx1 == IF ~st.reexport THEN ctx
                     ELSE IF st.star
                     THEN [ctx EXCEPT !.module_star_exports = Append(@, full_module(st))]
                     ELSE [ctx EXCEPT !.exports =
                              @ \o [i \in 1..Len(aliases) |-> EffectiveName(aliases[i])]]
             py_import == IF st.trunk # <<>>
                          THEN PyImportFromS(<<Join(st.trunk)>>, aliases, st.level, SpanOf(st))
                          ELSE IF st.level # 0
                          THEN PyImportFromS(<<>>, aliases, st.level, SpanOf(st))
                          ELSE PyImportS(aliases, SpanOf(st))
         IN OkS(<<py_import>>, ctx1)

\* the types of ExceptTypes lowered in order; a type with a prelude is an
\* error
except_type_items_body(ctx, xs) ==
    IF xs = <<>> THEN OkParts(ctx, <<>>, <<>>, <<>>)
    ELSE LET typ_node == transform(xs[1], ctx)
         IN IF ~typ_node.ok THEN typ_node
            ELSE IF typ_node.pre # <<>> THEN ErrE(MsgExceptPre, SpanOf(xs[1]), typ_node.ctx)
            ELSE LET r == except_type_items(typ_node.ctx, Tail(xs))
                 IN IF ~r.ok THEN r
                    ELSE OkParts(r.ctx, <<>>, <<>>, <<typ_node.expr>> \o r.items)

\* ExceptTypes::transform
except_types(ctx, types, sp) ==
    LET r == except_type_items(ctx, types.xs)
    IN IF ~r.ok THEN r
       ELSE IF types.single THEN OkE(<<>>, r.items[1], r.ctx)
       ELSE OkE(<<>>, PyTupleE([i \in 1..Len(r.items) |-> PyItem("Item", <<>>, r.items[i])]),
                r.ctx)

\* `for except in excepts` of Stmt::Try
try_excepts_body(ctx, excepts, sp) ==
    IF excepts = <<>> THEN OkParts(ctx, <<>>, <<>>, <<>>)
    ELSE LET except == excepts[1]
             except_types_ == IF except.types # <<>> THEN except_types(ctx, except.types[1], sp)
                              ELSE OkE(<<>>, PyLoad(N_Exception), ctx)
         IN IF ~except_types_.ok THEN except_types_
            ELSE LET body_block == transform_with_final_stmt(except.body, except_types_.ctx)
                 IN IF ~body_block.ok THEN body_block
                    ELSE LET r == try_excepts(body_block.ctx, Tail(excepts), sp)
                         IN IF ~r.ok THEN r
                            ELSE OkParts(r.ctx, <<>>, <<>>,
                                         <<[typ |-> <<except_types_.expr>>,
                                            name |-> IF except.name = <<>> THEN <<>>
                                                     ELSE except.name[1],
                                            body |-> body_block.stmts]>> \o r.items)

\* Stmt::Try
transform_try_stmt_body(st, ctx) ==
    LET body_block == transform_with_final_stmt(st.body, ctx)
    IN IF ~body_block.ok THEN body_block
       ELSE LET finally_block ==
                  IF st.finally = <<>> THEN OkS(<<>>, body_block.ctx)
                  ELSE transform_with_final_stmt(st.finally[1], body_block.ctx)
            IN IF ~finally_block.ok THEN finally_block
               ELSE LET excepts_ast == try_excepts(finally_block.ctx, st.handlers, SpanOf(st))
                    IN IF ~excepts_ast.ok THEN excepts_ast
                       ELSE OkS(<<[PyTryS(body_block.stmts, excepts_ast.items, SpanOf(st))
                                     EXCEPT !.finally = IF st.finally = <<>> THEN <<>>
                                                        ELSE <<finally_block.stmts>>]>>,
                                excepts_ast.ctx)

\* SStmt::transform
SStmt_transform_body(st, ctx, top_level) ==
    CASE st.k = "Expr" -> transform_expr_stmt(st, ctx)
      [] st.k \in {"Return", "Raise"} -> transform_return_stmt(st, ctx)
      [] st.k = "Assign" -> transform_assign_stmt(st, ctx, top_level)
      [] st.k = "For" -> transform_for_stmt(st, ctx)
      [] st.k = "While" -> transform_while_stmt(st, ctx)
      [] st.k = "Try" -> transform_try_stmt(st, ctx)
      [] st.k = "Break" -> OkS(<<PyBreakS(SpanOf(st))>>, ctx)
      [] st.k = "Continue" -> OkS(<<PyContinueS(SpanOf(st))>>, ctx)
      [] st.k = "Import" -> transform_import_stmt(st, ctx, top_level)
      [] st.k = "Err" -> ErrE(MsgStmtErr, SpanOf(st), ctx)
      [] st.k = "Module" -> ErrE(MsgModuleStmt, SpanOf(st), ctx)

(***************************************************************************)
(* Block shaper (SBlock::transform).                                       *)
(***************************************************************************)
\* the locals py_stmts, errs, ok of SBlock::transform, with the context
NewAcc(ctx) == [py_stmts |-> <<>>, errs |-> <<>>, ok |-> TRUE, panic |-> FALSE, ctx |-> ctx]

\* the handle_stmt closure
handle_stmt_body(acc, st, is_top_level) ==
    IF acc.panic THEN acc
    ELSE LET r == SStmt_transform(st, acc.ctx, is_top_level)
         IN IF r.ok THEN [acc EXCEPT !.py_stmts = @ \o r.stmts, !.ctx = r.ctx]
            ELSE [acc EXCEPT !.errs = @ \o r.errs, !.ok = FALSE, !.ctx = r.ctx,
                             !.panic = r.panic]

\* for stmt in iter.by_ref().take(..) { handle_stmt(stmt) }
handle_stmts_body(acc, ss, is_top_level) ==
    IF ss = <<>> THEN acc
    ELSE handle_stmts(handle_stmt(acc, ss[1], is_top_level), Tail(ss), is_top_level)

ExitKinds == {"Return", "Raise", "Continue", "Break"}

\* final_ for a final statement lowered by handle_stmt
StmtFinal(final_stmt, treat_final) ==
    IF treat_final /\ final_stmt.k \in ExitKinds THEN FinalNever ELSE FinalNothing

\* a final statement step that makes a final expression whatever
\* treat_final_as_expr is
final_stmt_step_always_expr(acc, final_stmt, treat_final, is_top_level) ==
    IF acc.panic THEN [acc |-> acc, final |-> FinalNothing, early |-> FALSE]
    ELSE IF final_stmt.k = "Expr"
    THEN IF final_stmt.mods # <<>>
         THEN [acc |-> [acc EXCEPT !.ok = FALSE,
                                   !.errs = <<TfErr(MsgModifiers, SpanOf(final_stmt))>>],
               final |-> FinalNothing, early |-> TRUE]
         ELSE LET r == transform_with_placeholder_guard(final_stmt.x, acc.ctx)
              IN IF r.ok
                 THEN [acc |-> [acc EXCEPT !.py_stmts = @ \o r.pre, !.ctx = r.ctx],
                       final |-> FinalExpr(r.expr), early |-> FALSE]
                 ELSE [acc |-> [acc EXCEPT !.errs = @ \o r.errs, !.ok = FALSE, !.ctx = r.ctx,
                                           !.panic = r.panic],
                       final |-> FinalNothing, early |-> FALSE]
    ELSE [acc |-> handle_stmt(acc, final_stmt, is_top_level),
          final |-> StmtFinal(final_stmt, treat_final), early |-> FALSE]

\* the part of SBlock::transform after the loop: the final statement.
\* early = TRUE is the `return Err` on a final expression with modifiers.
final_stmt_step_body(acc, final_stmt, treat_final, is_top_level) ==
    IF acc.panic THEN [acc |-> acc, final |-> FinalNothing, early |-> FALSE]
    ELSE IF treat_final /\ final_stmt.k = "Expr"
    THEN IF final_stmt.mods # <<>>
         THEN [acc |-> [acc EXCEPT !.ok = FALSE,
                                   !.errs = <<TfErr(MsgModifiers, SpanOf(final_stmt))>>],
               final |-> FinalNothing, early |-> TRUE]
         ELSE LET r == transform_with_placeholder_guard(final_stmt.x, acc.ctx)
              IN IF r.ok
                 THEN [acc |-> [acc EXCEPT !.py_stmts = @ \o r.pre, !.ctx = r.ctx],
                       final |-> FinalExpr(r.expr), early |-> FALSE]
                 ELSE [acc |-> [acc EXCEPT !.errs = @ \o r.errs, !.ok = FALSE, !.ctx = r.ctx,
                                           !.panic = r.panic],
                       final |-> FinalNothing, early |-> FALSE]
    ELSE [acc |-> handle_stmt(acc, final_stmt, is_top_level),
          final |-> StmtFinal(final_stmt, treat_final), early |-> FALSE]

\* if ok { Ok(PyBlockWithFinal) } else { Err(TfErrs(errs)) }
block_result(acc, final) ==
    IF acc.panic THEN PanicE(acc.ctx)
    ELSE IF acc.ok THEN OkB(acc.py_stmts, final, acc.ctx)
    ELSE [ok |-> FALSE, panic |-> FALSE, ctx |-> acc.ctx, errs |-> acc.errs]

\* Block::Expr in SBlock::transform
expr_block_body(b, ctx, treat_final, is_top_level) ==
    IF treat_final
    THEN LET t == transform(b.x, ctx)
         IN IF ~t.ok THEN t ELSE OkB(t.pre, FinalExpr(t.expr), t.ctx)
    ELSE LET r == SStmt_transform([SExpr(b.x, <<>>) EXCEPT !.s = b.x.s, !.e = b.x.e], ctx,
                                  is_top_level)
         IN IF ~r.ok THEN r ELSE OkB(r.stmts, FinalNothing, r.ctx)

SBlock_transform_body(b, ctx, treat_final, is_top_level) ==
    IF b.k = "Expr" THEN expr_block(b, ctx, treat_final, is_top_level)
    ELSE IF b.stmts = <<>> THEN OkB(<<>>, FinalNothing, ctx)
    ELSE LET acc == handle_stmts(NewAcc(ctx), Front(b.stmts), is_top_level)
             f == final_stmt_step(acc, Last(b.stmts), treat_final, is_top_level)
         IN block_result(f.acc, f.final)

\* the call of the lowering function named fn on the arguments a
Lower(fn, a) ==
    CASE fn = "placeholder_guard" -> placeholder_guard_body(a[1], a[2])
      [] fn = "transform_lifted" -> transform_lifted_body(a[1], a[2])
      [] fn = "transform_with_deep_placeholder_guard" -> transform_with_deep_placeholder_guard_body(a[1], a[2])
      [] fn = "make_arglist" -> make_arglist_body(a[1], a[2])
      [] fn = "prepare_py_fn" -> prepare_py_fn_body(a[1], a[2], a[3], a[4])
      [] fn = "make_fn_exp" -> make_fn_exp_body(a[1], a[2], a[3], a[4])
      [] fn = "make_fn_def" -> make_fn_def_body(a[1], a[2], a[3], a[4], a[5], a[6])
      [] fn = "class_bases" -> class_bases_body(a[1], a[2], a[3])
      [] fn = "make_class_def" -> make_class_def_body(a[1], a[2], a[3], a[4], a[5], a[6])
      [] fn = "transform_call_items" -> transform_call_items_body(a[1], a[2], a[3], a[4])
      [] fn = "transform_list_items" -> transform_list_items_body(a[1], a[2])
      [] fn = "transform_subscript_items" -> transform_subscript_items_body(a[1], a[2], a[3])
      [] fn = "transform_mapping_items" -> transform_mapping_items_body(a[1], a[2])
      [] fn = "postfix_node" -> postfix_node_body(a[1], a[2], a[3], a[4], a[5])
      [] fn = "transform_postfix_expr" -> transform_postfix_expr_body(a[1], a[2], a[3])
      [] fn = "transform_with_final_stmt" -> transform_with_final_stmt_body(a[1], a[2])
      [] fn = "transform_if_expr" -> transform_if_expr_body(a[1], a[2])
      [] fn = "transform_match_cases" -> transform_match_cases_body(a[1], a[2], a[3], a[4], a[5])
      [] fn = "transform_match_expr" -> transform_match_expr_body(a[1], a[2])
      [] fn = "transform_block_expr" -> transform_block_expr_body(a[1], a[2])
      [] fn = "binary_operands" -> binary_operands_body(a[1], a[2], a[3], a[4])
      [] fn = "transform_binary" -> transform_binary_body(a[1], a[2])
      [] fn = "transform_unary" -> transform_unary_body(a[1], a[2])
      [] fn = "transform_checked" -> transform_checked_body(a[1], a[2])
      [] fn = "slice_bound" -> slice_bound_body(a[1], a[2])
      [] fn = "transform_slice_inner" -> transform_slice_inner_body(a[1], a[2])
      [] fn = "transform_list_inner" -> transform_list_inner_body(a[1], a[2])
      [] fn = "transform_mapping_inner" -> transform_mapping_inner_body(a[1], a[2])
      [] fn = "transform_with_access" -> transform_with_access_body(a[1], a[2], a[3])
      [] fn = "destructure_list_items" -> destructure_list_items_body(a[1], a[2], a[3], a[4], a[5], a[6])
      [] fn = "destructure_list" -> destructure_list_body(a[1], a[2], a[3])
      [] fn = "destructure_mapping_items" -> destructure_mapping_items_body(a[1], a[2], a[3], a[4], a[5])
      [] fn = "destructure_mapping" -> destructure_mapping_body(a[1], a[2], a[3])
      [] fn = "destructure" -> destructure_body(a[1], a[2], a[3])
      [] fn = "py_decorators" -> py_decorators_body(a[1], a[2])
      [] fn = "plain_assignment" -> plain_assignment_body(a[1], a[2], a[3], a[4])
      [] fn = "transform_assignment" -> transform_assignment_body(a[1], a[2], a[3], a[4], a[5])
      [] fn = "transform_assign_stmt" -> transform_assign_stmt_body(a[1], a[2], a[3])
      [] fn = "transform_if_stmt" -> transform_if_stmt_body(a[1], a[2], a[3])
      [] fn = "transform_match_stmt_cases" -> transform_match_stmt_cases_body(a[1], a[2], a[3], a[4])
      [] fn = "transform_match_stmt" -> transform_match_stmt_body(a[1], a[2], a[3])
      [] fn = "transform_expr_stmt" -> transform_expr_stmt_body(a[1], a[2])
      [] fn = "transform_return_stmt" -> transform_return_stmt_body(a[1], a[2])
      [] fn = "transform_for_stmt" -> transform_for_stmt_body(a[1], a[2])
      [] fn = "transform_while_stmt" -> transform_while_stmt_body(a[1], a[2])
      [] fn = "except_type_items" -> except_type_items_body(a[1], a[2])
      [] fn = "try_excepts" -> try_excepts_body(a[1], a[2], a[3])
      [] fn = "transform_try_stmt" -> transform_try_stmt_body(a[1], a[2])
      [] fn = "SStmt_transform" -> SStmt_transform_body(a[1], a[2], a[3])
      [] fn = "handle_stmt" -> handle_stmt_body(a[1], a[2], a[3])
      [] fn = "handle_stmts" -> handle_stmts_body(a[1], a[2], a[3])
      [] fn = "final_stmt_step" -> final_stmt_step_body(a[1], a[2], a[3], a[4])
      [] fn = "expr_block" -> expr_block_body(a[1], a[2], a[3], a[4])
      [] fn = "SBlock_transform" -> SBlock_transform_body(a[1], a[2], a[3], a[4])

(***************************************************************************)
(* Input programs.                                                         *)
(***************************************************************************)
Na == <<"a">>
Nb == <<"b">>
Nc == <<"c">>
Nf == <<"f">>
Ng == <<"g">>
Nx == <<"x">>
Ny == <<"y">>

Nh == <<"h">>
Ncache == <<"c", "a", "c", "h", "e">>
Nmemoize == <<"m", "e", "m", "o", "i", "z", "e">>

\* operands: a plain identifier, `$`, a call (an effect without prelude),
\* and operands whose lowering has a prelude
Va == Ident(Na)
Vb == Ident(Nb)
Ph == Placeholder
One == Literal(<<"1">>)
CallOf(n) == Call(Ident(n), <<>>)
IfOf(n) == If(Ident(Nc), ExprB(CallOf(n)), <<ExprB(One)>>)
ChkOf(n) == Checked(CallOf(n))
PhPlus == Binary("Add", Ph, One)

\* a root block of the given statements, laid out from offset 0
Program(ss) == PlaceBlock(Stmts(ss), 0)
ExprProgram(x) == Program(<<SExpr(x, <<>>)>>)

\* binary expressions l op r
BinOps == {"Add", "Pipe", "Coalesce"}
LeftOperands == {Va, CallOf(Nf), IfOf(Nf), ChkOf(Nf), Ph}
RightOperands == {Vb, CallOf(Ng), IfOf(Ng), ChkOf(Ng), Ph, PhPlus}
BinaryInputs == {Binary(op, l, r) : op \in BinOps, l \in LeftOperands, r \in RightOperands}

\* composites over item sequences: calls, subscripts, lists, mappings, slices
ItemPool == {Ph, PhPlus, IfOf(Ng), ChkOf(Nh)}
ItemSeqs == UNION {[1..m -> ItemPool] : m \in 1..MaxItems}
ArgsOf(its) == [i \in 1..Len(its) |-> Arg(its[i])]
ItemsOf(its) == [i \in 1..Len(its) |-> Item(its[i])]
SpreadItemsOf(its) ==
    [i \in 1..Len(its) |-> IF i = 1 THEN Spread(its[i]) ELSE Item(its[i])]
\* consecutive elements pair up as key: value, an odd last one is a spread
MappingItemsOf(its) ==
    [i \in 1..((Len(its) + 1) \div 2) |->
        IF 2 * i <= Len(its) THEN KeyItem(its[2 * i - 1], its[2 * i]) ELSE Spread(its[2 * i - 1])]
SliceOf(its) ==
    Slice(<<its[1]>>, IF Len(its) >= 2 THEN <<its[2]>> ELSE <<>>,
          IF Len(its) >= 3 THEN <<its[3]>> ELSE <<>>)
CompositesOf(its) ==
    {Call(Ident(Nx), ArgsOf(its)), Call(IfOf(Nf), ArgsOf(its)),
     Subscript(Va, ItemsOf(its)), List(ItemsOf(its)), List(SpreadItemsOf(its)),
     Mapping(MappingItemsOf(its)), SliceOf(its),
     Subscript(Va, <<Item(SliceOf(its))>>)}
TwoItemMappings ==
    {Mapping(<<KeyItem(Va, IfOf(Ng)), KeyItem(ChkOf(Nh), Vb)>>),
     Mapping(<<Spread(IfOf(Ng)), KeyItem(ChkOf(Nh), Vb)>>),
     Mapping(<<KeyItem(Va, Ph), KeyItem(PhPlus, Vb)>>)}
CompositeInputs ==
    {Binary("Add", Va, c) : c \in (UNION {CompositesOf(its) : its \in ItemSeqs})
                                  \cup TwoItemMappings}

\* postfix steps, plain and mapped, over receivers
Receivers == {Va, CallOf(Nf), IfOf(Nf), MappedAttribute(CallOf(Nf), Nx), Ph}
StepArgs == {Vb, Ph, IfOf(Ng)}
PostfixInputs ==
    UNION {{Attribute(r, Ny), MappedAttribute(r, Ny)} : r \in Receivers}
    \cup UNION {{Call(r, <<Arg(a)>>), MappedCall(r, <<Arg(a)>>),
                 Subscript(r, <<Item(a)>>), MappedSubscript(r, <<Item(a)>>),
                 Then(r, a), MappedThen(r, a)} : r \in Receivers, a \in StepArgs}
    \cup {Call(Ph, <<Arg(Ph)>>), Call(Va, <<Kwarg(Nx, One), Arg(Vb)>>),
          Call(Va, <<KwargSpread(Vb), ArgSpread(Va)>>), Call(Va, <<ArgSpread(Vb), Kwarg(Nx, Ph)>>)}

\* blocks used as the arms of if- and match-expressions and as block
\* expressions: ending in an expression, in an exit, in another statement,
\* or empty
Arms ==
    {ExprB(One),
     Stmts(<<SExpr(CallOf(Nf), <<>>)>>),
     Stmts(<<SAssign(Vb, One, <<>>), SExpr(Vb, <<>>)>>),
     Stmts(<<SReturn(One)>>),
     Stmts(<<SRaise(Va)>>),
     Stmts(<<SBreak>>),
     Stmts(<<SExpr(Vb, <<>>), SContinue>>),
     Stmts(<<SAssign(Vb, One, <<>>)>>),
     Stmts(<<SWhile(Va, Stmts(<<SBreak>>))>>),
     Stmts(<<>>)}
IfInputs == {If(Ident(Nc), t, el) : t \in Arms, el \in {<<>>} \cup {<<a>> : a \in Arms}}
Case(p, b) == [pat |-> p, body |-> b]
Patterns == {<<>>, <<Ident(Nx)>>, <<One>>}
LastArms == {ExprB(One), Stmts(<<SReturn(One)>>), Stmts(<<SAssign(Vb, One, <<>>)>>),
             Stmts(<<SExpr(CallOf(Nf), <<>>)>>)}
FirstCases == {Case(<<One>>, ExprB(Vb)), Case(<<>>, ExprB(Vb)),
               Case(<<One>>, Stmts(<<SBreak>>)), Case(<<One>>, Stmts(<<>>)),
               Case(<<Ident(Nx)>>, ExprB(Vb)), Case(<<Attribute(Va, Nx)>>, ExprB(Vb))}
MatchInputs ==
    {Match(Va, <<>>)}
    \cup {Match(Va, <<Case(p, b)>>) : p \in Patterns, b \in LastArms}
    \cup {Match(Va, <<c, Case(p, b)>>) : c \in FirstCases, p \in Patterns, b \in LastArms}
BlockInputs == {BlockE(a) : a \in Arms}
ExprPositionInputs == IfInputs \cup MatchInputs \cup BlockInputs

\* assignment and loop targets
Targets ==
    {Va, Attribute(Va, Nx), Subscript(Va, <<Item(One)>>), Subscript(Va, <<Item(Ph)>>),
     Subscript(Va, <<Item(IfOf(Ng))>>), Attribute(CallOf(Ng), Nx), MappedAttribute(Va, Nx),
     List(<<Item(Va), Item(Vb)>>), List(<<Item(Va), Spread(Vb)>>), List(<<Spread(Va)>>),
     List(<<Spread(Va), Item(Vb)>>), List(<<Spread(Va), Spread(Vb)>>),
     List(<<Item(Va), Spread(Vb), Item(Ident(Nc))>>),
     List(<<Item(Va), Item(Vb), Spread(Ident(Nc))>>),
     List(<<Spread(Va), Item(Vb), Item(Ident(Nc))>>),
     List(<<Item(List(<<Item(Va), Spread(Vb)>>)), Spread(Ident(Nc)), Item(List(<<Item(Ident(Nx))>>))>>),
     List(<<Item(Subscript(Va, <<Item(Ph)>>)), Item(Vb)>>),
     List(<<Item(List(<<Item(Va)>>)), Item(Vb)>>),
     Mapping(<<KeyItem(One, Va), Spread(Vb)>>), Mapping(<<KeyItem(IfOf(Ng), Va)>>),
     Mapping(<<KeyItem(One, Attribute(Va, Nx))>>),
     One, Ph, CallOf(Ng)}
Modifiers == {<<>>, <<"Export">>, <<"Global">>, <<"Nonlocal">>, <<"Export", "Global">>}
\* mapping targets: the rest first, in the middle, last, absent and twice
MappingTargets ==
    {Mapping(<<Spread(Ident(Nx))>>),
     Mapping(<<KeyItem(One, Va), KeyItem(Ident(Nc), Vb)>>),
     Mapping(<<Spread(Ident(Nx)), KeyItem(One, Va)>>),
     Mapping(<<Spread(Ident(Nx)), KeyItem(One, Va), KeyItem(Ident(Nc), Vb)>>),
     Mapping(<<KeyItem(One, Va), Spread(Ident(Nx)), KeyItem(Ident(Nc), Vb)>>),
     Mapping(<<KeyItem(One, Va), KeyItem(Ident(Nc), Vb), Spread(Ident(Nx))>>),
     Mapping(<<KeyItem(IfOf(Ng), Va), Spread(Ident(Nx)), KeyItem(CallOf(Nf), Vb)>>),
     Mapping(<<Spread(Ident(Nx)), Spread(Ident(Ny))>>),
     Mapping(<<KeyItem(One, Va), Spread(Ident(Nx)), Spread(Ident(Ny))>>),
     Mapping(<<Spread(Ident(Nx)), KeyItem(One, Va), Spread(Ident(Ny))>>),
     List(<<Spread(Va), Item(Vb), Spread(Ident(Nx))>>)}
MappingInputs == {SAssign(t, v, <<>>) : t \in MappingTargets, v \in {One, IfOf(Nf)}}
AssignInputs ==
    {SAssign(t, v, m) : t \in Targets, v \in {One, IfOf(Nf)}, m \in Modifiers}
ForInputs ==
    {SFor(t, it, b) : t \in {Va, List(<<Item(Va), Item(Vb)>>), Subscript(Va, <<Item(Ph)>>),
                             Mapping(<<KeyItem(One, Va)>>), One},
                      it \in {Vb, IfOf(Nf)},
                      b \in {Stmts(<<SExpr(CallOf(Ng), <<>>)>>), Stmts(<<SBreak>>)}}

\* function and class expressions, bare and behind decorators
IdFn == Fn(<<ArgDef(Ident(Nx), <<>>)>>, ExprB(Ident(Nx)))
FnInputs ==
    {IdFn,
     Fn(<<ArgDef(Ident(Nx), <<IfOf(Ng)>>)>>, ExprB(Ident(Nx))),
     Fn(<<ArgDef(List(<<Item(Va), Item(Vb)>>), <<>>)>>, ExprB(Va)),
     Fn(<<ArgDef(Ident(Nx), <<>>)>>, Stmts(<<SAssign(Vb, Ident(Nx), <<>>), SExpr(Vb, <<>>)>>)),
     Fn(<<ArgDef(Ident(Nx), <<>>)>>, Stmts(<<SReturn(Ph)>>)),
     Fn(<<ArgSpread(One), KwargSpread(One)>>, Stmts(<<>>)),
     Class(<<Arg(Va)>>, Stmts(<<SAssign(Vb, One, <<>>)>>)),
     Class(<<Kwarg(Nx, IfOf(Ng)), Arg(Ph)>>, Stmts(<<>>)),
     Class(<<ArgSpread(Va)>>, Stmts(<<>>)),
     Class(<<>>, ExprB(One))}
Decorated(x) ==
    {x, Then(Va, x), Binary("Pipe", x, Vb), Call(CallOf(Ng), <<Arg(x)>>),
     Then(IfOf(Ng), x), Binary("Pipe", Va, Call(Vb, <<Arg(x)>>)),
     Then(x, Va), Then(Call(Vb, <<Arg(x)>>), Va), Call(Va, <<Arg(Binary("Pipe", x, Vb))>>),
     Binary("Pipe", Then(x, Call(Ident(Nh), <<Arg(Ph)>>)), Vb),
     Call(Va, <<Arg(x), Arg(Vb)>>), Call(Va, <<Kwarg(Nx, x)>>), Call(Va, <<ArgSpread(x)>>),
     Call(Va, <<>>), Binary("Add", x, Vb), MappedThen(x, Va)}
\* the assignment `f = cache | memoize(x => x)` and its neighbours
PipeIntoCall ==
    SAssign(Ident(Nf), Binary("Pipe", Ident(Ncache), Call(Ident(Nmemoize), <<Arg(IdFn)>>)), <<>>)
PipeChain ==
    SAssign(Ident(Nf), Binary("Pipe", Binary("Pipe", IdFn, Ident(Nmemoize)), Ident(Ncache)), <<>>)
CallChain ==
    SAssign(Ident(Nf), Call(Ident(Ncache), <<Arg(Call(Ident(Nmemoize), <<Arg(IdFn)>>))>>), <<>>)
\* definitions behind decorators that lower with a prelude
PreludeDecorated ==
    {SAssign(Ident(Nf), d, <<>>) :
        d \in {Call(IfOf(Ng), <<Arg(IdFn)>>), Then(IdFn, ChkOf(Nh)),
               Binary("Pipe", Class(<<Arg(Va)>>, Stmts(<<>>)), IfOf(Ng)),
               Then(Call(ChkOf(Nh), <<Arg(IdFn)>>), IfOf(Ng))}}
FnAssignInputs ==
    {SAssign(Ident(Nf), d, m) : d \in UNION {Decorated(x) : x \in FnInputs},
                                m \in {<<>>, <<"Export">>}}

\* the remaining statement kinds
Leaf(n, alias) == [name |-> n, alias |-> alias]
ImportInputs ==
    {SImport(trunk, leaves, leaves = <<>>, level, reexport) :
        trunk \in {<<>>, <<Na>>, <<Na, Nb>>},
        leaves \in {<<>>, <<Leaf(Nx, <<>>)>>, <<Leaf(Nx, <<Ny>>)>>,
                    <<Leaf(Nx, <<>>), Leaf(Ny, <<Nb>>)>>},
        level \in {0, 1, 2}, reexport \in BOOLEAN}
OtherStmtInputs ==
    {SWhile(c, b) : c \in {Va, IfOf(Nf), Ph, CallOf(Nf), ChkOf(Nf)}, b \in {Stmts(<<SBreak>>), Stmts(<<SExpr(Vb, <<>>)>>)}}
    \cup {SReturn(Va), SReturn(IfOf(Nf)), SRaise(Va), SBreak, SContinue, SErr, SModule,
          SExpr(Va, <<"Export">>), SExpr(Unary("Neg", Ph), <<>>), SExpr(Unary("Yield", Va), <<>>)}

\* if-expressions as statements, the condition with and without a prelude
IfStmtInputs ==
    {SExpr(If(c, t, el), <<>>) :
        c \in {Va, CallOf(Nf), IfOf(Nf), ChkOf(Nf), Ph, Binary("Add", IfOf(Nf), ChkOf(Ng))},
        t \in {Stmts(<<SExpr(Vb, <<>>)>>), ExprB(One)},
        el \in {<<>>, <<Stmts(<<SBreak>>)>>}}

\* try statements
TryInputs ==
    {STry(Stmts(<<SExpr(CallOf(Nf), <<>>)>>), hs, fin) :
        hs \in {<<>>,
                <<Handler(<<>>, <<>>, Stmts(<<SBreak>>))>>,
                <<Handler(<<[single |-> TRUE, xs |-> <<Va>>]>>, <<Nx>>, Stmts(<<SReturn(Vb)>>))>>,
                <<Handler(<<[single |-> FALSE, xs |-> <<Va, Vb>>]>>, <<>>, Stmts(<<>>)),
                  Handler(<<>>, <<Ny>>, ExprB(CallOf(Ng)))>>,
                <<Handler(<<[single |-> TRUE, xs |-> <<IfOf(Ng)>>]>>, <<>>, Stmts(<<>>))>>,
                <<Handler(<<[single |-> FALSE, xs |-> <<Va, Ph>>]>>, <<>>, Stmts(<<>>))>>},
        fin \in {<<>>, <<Stmts(<<SExpr(CallOf(Nh), <<>>)>>)>>, <<Stmts(<<SErr>>)>>}}

\* statements that may stand only at the top level, and assignments with
\* two scope modifiers
TopOnlyStmts ==
    {SAssign(Va, One, <<"Export">>), SAssign(Ident(Nf), IdFn, <<"Export">>),
     SImport(<<Na>>, <<>>, TRUE, 0, TRUE), SImport(<<Na>>, <<Leaf(Nx, <<>>)>>, FALSE, 0, TRUE)}
TwoModifierStmts ==
    {SAssign(Va, CallOf(Nf), <<"Export", "Global">>), SAssign(Va, One, <<"Global", "Nonlocal">>)}

\* a statement ns inside each kind of nested block
NestedIn(ns) ==
    {SExpr(If(Ident(Nc), Stmts(<<ns>>), <<>>), <<>>),
     SExpr(If(Ident(Nc), ExprB(One), <<Stmts(<<ns>>)>>), <<>>),
     SWhile(Va, Stmts(<<ns>>)),
     SFor(Va, Vb, Stmts(<<ns, SBreak>>)),
     STry(Stmts(<<ns>>), <<>>, <<>>),
     STry(Stmts(<<>>), <<Handler(<<>>, <<>>, Stmts(<<ns>>))>>, <<>>),
     STry(Stmts(<<>>), <<>>, <<Stmts(<<ns>>)>>),
     SAssign(Ident(Ng), Fn(<<>>, Stmts(<<ns, SExpr(One, <<>>)>>)), <<>>),
     SExpr(Fn(<<>>, Stmts(<<ns>>)), <<>>),
     SAssign(Ident(Ng), Class(<<>>, Stmts(<<ns>>)), <<>>),
     SAssign(Vb, If(Ident(Nc), Stmts(<<ns, SExpr(One, <<>>)>>), <<ExprB(One)>>), <<>>),
     SAssign(Vb, Match(Va, <<Case(<<>>, Stmts(<<ns, SExpr(One, <<>>)>>))>>), <<>>),
     SWhile(Va, Stmts(<<SExpr(If(Ident(Nc), Stmts(<<ns>>), <<>>), <<>>)>>))}
NestedInputs == UNION {NestedIn(ns) : ns \in TopOnlyStmts \cup TwoModifierStmts}

\* statements combined into longer root blocks
SeqStmtPool ==
    {SAssign(Va, One, <<"Export">>),
     SAssign(List(<<Item(Vb), Spread(Ident(Nc))>>), Va, <<"Export">>),
     SAssign(Vb, IfOf(Nf), <<"Global">>),
     SAssign(Ident(Nf), IdFn, <<"Export">>),
     SImport(<<Na>>, <<>>, TRUE, 1, TRUE),
     SImport(<<>>, <<Leaf(Nx, <<>>), Leaf(Ny, <<Nb>>)>>, FALSE, 0, TRUE),
     SExpr(Call(Ident(Nf), <<Arg(Ph)>>), <<>>),
     SExpr(Call(Va, <<Kwarg(Nx, One), Arg(Vb)>>), <<>>),
     SExpr(Binary("Add", Va, If(Ident(Nc), ExprB(One), <<>>)), <<>>),
     SExpr(Vb, <<"Global">>),
     SAssign(One, Va, <<>>),
     SErr}
StmtSeqs == UNION {[1..m -> SeqStmtPool] : m \in 2..MaxStmts}

\* a statement that lowers or fails under its guard, followed by a statement
\* with `$` at a position no guard covers
UnguardedPh == {SAssign(Attribute(Ph, Nx), One, <<>>),
                STry(Stmts(<<SExpr(Va, <<>>)>>),
                     <<Handler(<<[single |-> TRUE, xs |-> <<Ph>>]>>, <<>>, Stmts(<<>>))>>, <<>>)}
BeforeUnguarded ==
    {SExpr(Va, <<>>), SExpr(Call(Ident(Nf), <<Arg(Ph)>>), <<>>),
     SExpr(Binary("Add", Va, If(Ident(Nc), ExprB(One), <<>>)), <<>>),
     SExpr(Call(Va, <<Kwarg(Nx, One), Arg(Vb)>>), <<>>),
     SReturn(If(Ident(Nc), ExprB(One), <<>>)),
     SAssign(One, Va, <<>>)}
SiblingPrograms ==
    {<<st>> : st \in UnguardedPh} \cup {<<a, st>> : a \in BeforeUnguarded, st \in UnguardedPh}

Programs ==
    {ExprProgram(x) : x \in BinaryInputs \cup CompositeInputs \cup PostfixInputs
                             \cup ExprPositionInputs \cup FnInputs}
    \cup {Program(<<SAssign(Va, x, <<>>)>>) : x \in ExprPositionInputs}
    \cup {Program(<<st>>) : st \in AssignInputs \cup ForInputs \cup FnAssignInputs
                                   \cup ImportInputs \cup OtherStmtInputs}
    \cup {Program(ss) : ss \in StmtSeqs \cup SiblingPrograms}
    \cup {Program(<<st>>) : st \in TryInputs \cup NestedInputs \cup IfStmtInputs \cup MappingInputs
                                   \cup PreludeDecorated}
    \cup {Program(<<st>>) : st \in {PipeIntoCall, PipeChain, CallChain}}
    \cup {Program(<<SAssign(Vb, One, <<"Export">>), st>>) : st \in NestedInputs}
    \cup {Program(<<>>), PlaceBlock(ExprB(Va), 0), PlaceBlock(ExprB(IfOf(Nf)), 0),
          PlaceBlock(ExprB(Ph), 0), PlaceBlock(ExprB(Binary("Add", Va, Ph)), 0)}

(***************************************************************************)
(* The state machine: transform_ast lowering the root block, one           *)
(* statement of the root block per step.                                   *)
(***************************************************************************)
Init ==
    /\ root_block \in Programs
    /\ treat_final_as_expr \in BOOLEAN
    /\ overflow_checks \in BOOLEAN
    /\ pc = "run"
    /\ stmt_idx = 1
    /\ tfctx = NewCtx
    /\ py_stmts = <<>>
    /\ errs = <<>>
    /\ ok = TRUE
    /\ final_ = FinalNothing
    /\ result = "none"

\* the locals of the root SBlock::transform as handle_stmt sees them
RootAcc == [py_stmts |-> py_stmts, errs |-> errs, ok |-> ok, panic |-> FALSE, ctx |-> tfctx]

\* the locals after a step; a panic ends transform_ast
SetAcc(acc, final) ==
    /\ py_stmts' = acc.py_stmts
    /\ errs' = acc.errs
    /\ ok' = acc.ok
    /\ tfctx' = acc.ctx
    /\ final_' = final
    /\ pc' = IF acc.panic THEN "done" ELSE pc
    /\ result' = IF acc.panic THEN "panic" ELSE result

\* a statement before the last one of the root block
HandleStmt ==
    /\ pc = "run"
    /\ root_block.k = "Stmts"
    /\ stmt_idx < Len(root_block.stmts)
    /\ SetAcc(handle_stmt(RootAcc, root_block.stmts[stmt_idx], TRUE), final_)
    /\ stmt_idx' = stmt_idx + 1
    /\ UNCHANGED <<root_block, treat_final_as_expr, overflow_checks>>

\* the last statement of the root block
HandleFinalStmt ==
    /\ pc = "run"
    /\ root_block.k = "Stmts"
    /\ stmt_idx = Len(root_block.stmts)
    /\ LET f == final_stmt_step(RootAcc, Last(root_block.stmts), treat_final_as_expr, TRUE)
       IN /\ py_stmts' = f.acc.py_stmts
          /\ errs' = f.acc.errs
          /\ ok' = f.acc.ok
          /\ tfctx' = f.acc.ctx
          /\ final_' = f.final
          /\ pc' = IF f.acc.panic THEN "done" ELSE "shaped"
          /\ result' = IF f.acc.panic THEN "panic" ELSE result
    /\ stmt_idx' = stmt_idx + 1
    /\ UNCHANGED <<root_block, treat_final_as_expr, overflow_checks>>

\* an empty root block
EmptyBlock ==
    /\ pc = "run"
    /\ root_block.k = "Stmts"
    /\ root_block.stmts = <<>>
    /\ pc' = "shaped"
    /\ UNCHANGED <<root_block, treat_final_as_expr, overflow_checks, stmt_idx, tfctx, py_stmts,
                   errs, ok, final_, result>>

\* a root block that is a single expression
ExprBlock ==
    /\ pc = "run"
    /\ root_block.k = "Expr"
    /\ LET r == expr_block(root_block, tfctx, treat_final_as_expr, TRUE)
       IN /\ py_stmts' = IF r.ok THEN r.stmts ELSE py_stmts
          /\ errs' = r.errs
          /\ ok' = r.ok
          /\ tfctx' = r.ctx
          /\ final_' = IF r.ok THEN r.final ELSE final_
          /\ pc' = IF r.panic THEN "done" ELSE "shaped"
          /\ result' = IF r.panic THEN "panic" ELSE result
    /\ UNCHANGED <<root_block, treat_final_as_expr, overflow_checks, stmt_idx>>

\* the source expression of the root block's final expression
FinalSource == IF root_block.k = "Expr" THEN root_block.x ELSE Last(root_block.stmts).x

\* the tail of transform_ast, after block.transform returned
TransformAstReturn ==
    /\ pc = "shaped"
    /\ pc' = "done"
    /\ IF ~ok THEN result' = "err" /\ py_stmts' = py_stmts
       ELSE IF final_.t # "Expr" THEN result' = "ok" /\ py_stmts' = py_stmts
       ELSE IF treat_final_as_expr
       THEN /\ result' = "ok"
            /\ py_stmts' = Append(py_stmts, PyExprS(final_.x[1], SpanOf(FinalSource)))
       ELSE result' = "panic" /\ py_stmts' = py_stmts
    /\ UNCHANGED <<root_block, treat_final_as_expr, overflow_checks, stmt_idx, tfctx, errs, ok,
                   final_>>

Next == HandleStmt \/ HandleFinalStmt \/ EmptyBlock \/ ExprBlock \/ TransformAstReturn

Spec == Init /\ [][Next]_vars

(***************************************************************************)
(* Observations on the emitted Python AST.                                 *)
(***************************************************************************)
RECURSIVE FlatStmts(_), FlatBodies(_)

\* the statement lists nested directly in a statement
NestedBodies(st) ==
    CASE st.k = "If" -> <<st.body>> \o st.orelse
      [] st.k \in {"While", "For", "FnDef", "ClassDef"} -> <<st.body>>
      [] st.k = "Try" -> <<st.body>> \o [i \in 1..Len(st.handlers) |-> st.handlers[i].body]
                         \o st.finally
      [] st.k = "Match" -> [i \in 1..Len(st.cases) |-> st.cases[i].body]
      [] OTHER -> <<>>

\* every statement of a statement list, nested ones included, in textual
\* order
FlatStmts(stmts) ==
    IF stmts = <<>> THEN <<>>
    ELSE <<stmts[1]>> \o FlatBodies(NestedBodies(stmts[1])) \o FlatStmts(Tail(stmts))
FlatBodies(bodies) ==
    IF bodies = <<>> THEN <<>> ELSE FlatStmts(bodies[1]) \o FlatBodies(Tail(bodies))

Range(sq) == {sq[i] : i \in 1..Len(sq)}

\* the output once transform_ast has returned Ok
Emitted == IF result = "ok" THEN py_stmts ELSE <<>>
EmittedFlat == FlatStmts(Emitted)

\* the single statement of a one-statement root block
RootStmts == IF root_block.k = "Stmts" THEN root_block.stmts ELSE <<>>
SingleStmt == Len(RootStmts) = 1
RootStmt == RootStmts[1]

(***************************************************************************)
(* C1.  Assignment and loop targets.                                       *)
(***************************************************************************)
RECURSIVE Assignable(_)
\* a Python expression that can stand left of `=` or after `for`
Assignable(t) ==
    CASE t.k = "Ident" -> t.ctx = "Store"
      [] t.k \in {"Attribute", "Subscript"} -> t.ctx = "Store"
      [] t.k \in {"Tuple", "List"} -> \A i \in 1..Len(t.items) : Assignable(t.items[i].x)
      [] OTHER -> FALSE

\* C1: whenever lowering succeeds, the target of every emitted Assign and
\* For statement is an identifier, attribute or subscript in Store context
C1_StoreTargetsAssignable ==
    \A i \in 1..Len(EmittedFlat) :
        EmittedFlat[i].k \in {"Assign", "For"} => Assignable(EmittedFlat[i].target)

(***************************************************************************)
(* Observations on the input AST.                                          *)
(***************************************************************************)
RECURSIVE ExprNodes(_), ItemNodes(_), BlockNodes(_), StmtNodes(_), CaseNodes(_)

OptNodes(o) == IF o = <<>> THEN {} ELSE ExprNodes(o[1])

\* every expression node of an expression, itself included
ExprNodes(x) ==
    {x} \cup
    CASE x.k \in {"Literal", "Ident", "Placeholder"} -> {}
      [] x.k \in {"List", "Mapping"} -> ItemNodes(x.items)
      [] x.k = "Slice" -> OptNodes(x.lo) \cup OptNodes(x.hi) \cup OptNodes(x.step)
      [] x.k \in {"Unary", "Checked"} -> ExprNodes(x.x)
      [] x.k = "Binary" -> ExprNodes(x.l) \cup ExprNodes(x.r)
      [] x.k = "If" -> ExprNodes(x.cond) \cup BlockNodes(x.then)
                       \cup (IF x.else = <<>> THEN {} ELSE BlockNodes(x.else[1]))
      [] x.k = "Match" -> ExprNodes(x.subject) \cup CaseNodes(x.cases)
      [] x.k \in {"Call", "Subscript", "MappedCall", "MappedSubscript"} ->
           ExprNodes(x.obj) \cup ItemNodes(x.items)
      [] x.k \in {"Attribute", "MappedAttribute"} -> ExprNodes(x.obj)
      [] x.k \in {"Then", "MappedThen"} -> ExprNodes(x.obj) \cup ExprNodes(x.rhs)
      [] x.k \in {"Fn", "Class"} -> ItemNodes(x.items) \cup BlockNodes(x.body)
      [] x.k = "Block" -> BlockNodes(x.block)

ItemNodes(items) ==
    UNION {ExprNodes(items[i].x) \cup OptNodes(items[i].key) : i \in 1..Len(items)}

CaseNodes(cases) ==
    UNION {OptNodes(cases[i].pat) \cup BlockNodes(cases[i].body) : i \in 1..Len(cases)}

StmtNodes(st) ==
    CASE st.k = "Assign" -> ExprNodes(st.lhs) \cup ExprNodes(st.rhs)
      [] st.k \in {"Expr", "Return", "Raise"} -> ExprNodes(st.x)
      [] st.k = "While" -> ExprNodes(st.cond) \cup BlockNodes(st.body)
      [] st.k = "For" -> ExprNodes(st.target) \cup ExprNodes(st.iter) \cup BlockNodes(st.body)
      [] st.k = "Try" ->
           BlockNodes(st.body)
           \cup UNION {BlockNodes(st.handlers[i].body)
                         \cup (IF st.handlers[i].types = <<>> THEN {}
                               ELSE UNION {ExprNodes(y) : y \in Range(st.handlers[i].types[1].xs)})
                       : i \in 1..Len(st.handlers)}
           \cup (IF st.finally = <<>> THEN {} ELSE BlockNodes(st.finally[1]))
      [] OTHER -> {}

BlockNodes(b) ==
    IF b.k = "Expr" THEN ExprNodes(b.x)
    ELSE UNION {StmtNodes(b.stmts[i]) : i \in 1..Len(b.stmts)}

RECURSIVE MappingOperands(_)
\* key then value of each item of a mapping, the expression of a spread
MappingOperands(items) ==
    IF items = <<>> THEN <<>>
    ELSE items[1].key \o <<items[1].x>> \o MappingOperands(Tail(items))

\* the operands of a composite expression, in source order
Operands(x) ==
    CASE x.k = "Binary" -> <<x.l, x.r>>
      [] x.k \in {"Call", "MappedCall"} -> <<x.obj>> \o [i \in 1..Len(x.items) |-> x.items[i].x]
      [] x.k = "List" -> [i \in 1..Len(x.items) |-> x.items[i].x]
      [] x.k = "Mapping" -> MappingOperands(x.items)
      [] x.k = "Slice" -> x.lo \o x.hi \o x.step
      [] OTHER -> <<>>

\* a statement whose span lies inside the span of an expression: the
\* statement was emitted while lowering that expression
EmittedFor(st, x) == x.s <= st.s /\ st.e <= x.e

(***************************************************************************)
(* C2.  Prelude order of composite expressions.                            *)
(***************************************************************************)
\* the prelude statements of operand i precede those of operand j
OperandsInOrder(x, i, j) ==
    \A p, q \in 1..Len(EmittedFlat) :
        EmittedFor(EmittedFlat[p], Operands(x)[i]) /\ EmittedFor(EmittedFlat[q], Operands(x)[j])
        => p < q

\* C2: in the output of a successful lowering, for every binary expression,
\* call, list, mapping and slice of the input, the prelude statements of an
\* operand come before those of every operand that follows it in the source
C2_PreludeSourceOrder ==
    \A x \in BlockNodes(root_block) :
        \A i, j \in 1..Len(Operands(x)) : i < j => OperandsInOrder(x, i, j)

\* some composite has two operands that both contributed prelude statements
C2_Witness ==
    \E x \in BlockNodes(root_block) :
        /\ x.k \in {"Binary", "Call", "List", "Mapping", "Slice"}
        /\ \E i, j \in 1..Len(Operands(x)) :
              /\ i < j
              /\ \E p \in 1..Len(EmittedFlat) : EmittedFor(EmittedFlat[p], Operands(x)[i])
              /\ \E q \in 1..Len(EmittedFlat) : EmittedFor(EmittedFlat[q], Operands(x)[j])

(***************************************************************************)
(* Execution of the emitted Python: the sequence of calls to the           *)
(* functions f, g and h that one run performs.  Every conditional of the   *)
(* run takes the branch br; with inside the bodies of lambdas and function *)
(* definitions are run where they are defined, without them they are not   *)
(* run at all.                                                             *)
(***************************************************************************)
EffectNames == {Nf, Ng, Nh}

RECURSIVE EvalTrace(_, _, _), ItemsTrace(_, _, _), ExecTrace(_, _, _), SeqTrace(_, _, _)

OptTrace(o, br, inside) == IF o = <<>> THEN <<>> ELSE EvalTrace(o[1], br, inside)

\* the calls made by evaluating an expression, in Python's order
EvalTrace(x, br, inside) ==
    CASE x.k \in {"Ident", "Num", "Literal", "None"} -> <<>>
      [] x.k = "Call" ->
           EvalTrace(x.f, br, inside) \o ItemsTrace(x.args, br, inside)
           \o (IF x.f.k = "Ident" /\ x.f.name \in EffectNames THEN <<x.f.name>> ELSE <<>>)
      [] x.k = "Attribute" -> EvalTrace(x.obj, br, inside)
      [] x.k = "Subscript" -> EvalTrace(x.obj, br, inside) \o EvalTrace(x.idx, br, inside)
      [] x.k = "Slice" ->
           OptTrace(x.lo, br, inside) \o OptTrace(x.hi, br, inside) \o OptTrace(x.step, br, inside)
      [] x.k \in {"Tuple", "List", "Dict"} -> ItemsTrace(x.items, br, inside)
      [] x.k = "Binary" -> EvalTrace(x.l, br, inside) \o EvalTrace(x.r, br, inside)
      [] x.k \in {"Unary", "Yield", "YieldFrom"} -> EvalTrace(x.x, br, inside)
      [] x.k = "Lambda" -> IF inside THEN EvalTrace(x.ret, br, inside) ELSE <<>>
      [] x.k = "IfExpr" ->
           EvalTrace(x.test, br, inside)
           \o (IF br THEN EvalTrace(x.then_, br, inside) ELSE EvalTrace(x.else_, br, inside))

ItemsTrace(items, br, inside) ==
    IF items = <<>> THEN <<>>
    ELSE OptTrace(items[1].key, br, inside) \o EvalTrace(items[1].x, br, inside)
         \o ItemsTrace(Tail(items), br, inside)

\* the calls made by a list of expressions
SeqTrace(xs, br, inside) ==
    IF xs = <<>> THEN <<>> ELSE EvalTrace(xs[1], br, inside) \o SeqTrace(Tail(xs), br, inside)

Running(tr) == [tr |-> tr, halt |-> FALSE]
Halted(tr) == [tr |-> tr, halt |-> TRUE]

\* the calls made by running a statement list; halt tells that the run
\* left the list through return, raise, break or continue
ExecTrace(stmts, br, inside) ==
    IF stmts = <<>> THEN Running(<<>>)
    ELSE LET st == stmts[1]
             body(b) == ExecTrace(b, br, inside)
             first ==
               CASE st.k = "Assign" ->
                      Running(EvalTrace(st.value, br, inside) \o EvalTrace(st.target, br, inside))
                 [] st.k = "Expr" -> Running(EvalTrace(st.value, br, inside))
                 [] st.k \in {"Return", "Raise"} -> Halted(EvalTrace(st.value, br, inside))
                 [] st.k \in {"Break", "Continue"} -> Halted(<<>>)
                 [] st.k = "If" ->
                      LET arm == IF br THEN body(st.body)
                                 ELSE IF st.orelse = <<>> THEN Running(<<>>)
                                 ELSE body(st.orelse[1])
                      IN [arm EXCEPT !.tr = EvalTrace(st.test, br, inside) \o @]
                 [] st.k = "While" ->
                      Running(EvalTrace(st.test, br, inside) \o body(st.body).tr)
                 [] st.k = "For" ->
                      Running(EvalTrace(st.iter, br, inside) \o EvalTrace(st.target, br, inside)
                              \o body(st.body).tr)
                 [] st.k = "Try" ->
                      LET b == body(st.body)
                          f == IF st.finally = <<>> THEN Running(<<>>) ELSE body(st.finally[1])
                      IN [tr |-> b.tr \o f.tr, halt |-> b.halt \/ f.halt]
                 [] st.k = "Match" ->
                      LET arm == IF st.cases = <<>> THEN Running(<<>>)
                                 ELSE IF br THEN body(st.cases[1].body)
                                 ELSE body(Last(st.cases).body)
                      IN [arm EXCEPT !.tr = EvalTrace(st.subject, br, inside) \o @]
                 [] st.k = "FnDef" ->
                      Running(SeqTrace(st.decorators, br, inside)
                              \o (IF inside THEN body(st.body).tr ELSE <<>>))
                 [] st.k = "ClassDef" ->
                      Running(SeqTrace(st.decorators, br, inside)
                              \o ItemsTrace(st.bases, br, inside) \o body(st.body).tr)
                 [] OTHER -> Running(<<>>)
         IN IF first.halt THEN first
            ELSE LET rest == ExecTrace(Tail(stmts), br, inside)
                 IN [rest EXCEPT !.tr = first.tr \o @]

\* the calls of one run of the emitted program
RunTrace(br, inside) == ExecTrace(Emitted, br, inside).tr

\* the functions f, g, h an input expression calls
Effects(x) ==
    {n \in EffectNames : \E c \in ExprNodes(x) : c.k = "Call" /\ c.obj.k = "Ident" /\ c.obj.name = n}

\* how often a call occurs in a trace
Count(n, tr) == Cardinality({i \in 1..Len(tr) : tr[i] = n})

(***************************************************************************)
(* C3.  Evaluation order of binary operands.                               *)
(***************************************************************************)
\* the root block is the single expression statement l op r, op neither
\* Pipe nor Coalesce, and both operands call one of f, g, h
EffectfulBinary ==
    /\ SingleStmt
    /\ RootStmt.k = "Expr"
    /\ RootStmt.x.k = "Binary"
    /\ RootStmt.x.op \notin {"Pipe", "Coalesce"}
    /\ Effects(RootStmt.x.l) # {}
    /\ Effects(RootStmt.x.r) # {}

\* C3: for a binary expression l op r (op neither Pipe nor Coalesce) whose
\* operands both have effects, every run of the emitted Python performs
\* every effect of l before any effect of r
C3_LeftBeforeRight ==
    (result = "ok" /\ EffectfulBinary) =>
        \A br \in BOOLEAN :
            LET tr == RunTrace(br, FALSE)
            IN \A p, q \in 1..Len(tr) :
                  (tr[p] \in Effects(RootStmt.x.l) /\ tr[q] \in Effects(RootStmt.x.r)) => p < q

(***************************************************************************)
(* C4.  Blocks in expression position.                                     *)
(***************************************************************************)
\* the root block is the single statement a = X without modifiers, X an
\* if-expression, a match-expression or a block-expression
ExprPositionCase ==
    /\ SingleStmt
    /\ RootStmt.k = "Assign"
    /\ RootStmt.mods = <<>>
    /\ RootStmt.lhs.k = "Ident"
    /\ RootStmt.rhs.k \in {"If", "Match", "Block"}
ExprPositionNode == RootStmt.rhs

\* the arms of X in source order
ArmsOf(x) ==
    CASE x.k = "If" -> <<x.then>> \o x.else
      [] x.k = "Match" -> [i \in 1..Len(x.cases) |-> x.cases[i].body]
      [] x.k = "Block" -> <<x.block>>

EndsInExpr(b) == b.k = "Expr" \/ (b.stmts # <<>> /\ Last(b.stmts).k = "Expr")
EndsInExit(b) ==
    b.k = "Stmts" /\ b.stmts # <<>> /\ Last(b.stmts).k \in {"Return", "Raise", "Break", "Continue"}
OtherFinal(b) == ~EndsInExpr(b) /\ ~EndsInExit(b)

\* the statements of the arm lower without error on their own
ArmLowers(b) == SBlock_transform(b, PushGuard(NewCtx, <<0, 0>>), TRUE, FALSE).ok

\* X has no defect other than the final statements of its arms
FinalsOnlyDefect(x) ==
    /\ \A i \in 1..Len(ArmsOf(x)) : ArmLowers(ArmsOf(x)[i])
    /\ x.k = "If" => x.else # <<>>
    /\ x.k = "Match" =>
          /\ x.cases # <<>>
          /\ \A i \in 1..Len(x.cases) : (i < Len(x.cases)) => x.cases[i].pat # <<>>
          /\ Last(x.cases).pat = <<>> \/ Last(x.cases).pat[1].k = "Ident"

FinalExprMsgs == {MsgThenFinal, MsgElseFinal, MsgMatchFinal, MsgBlockFinal}

\* the emitted statement that carries the arms, the emitted arms, and the
\* result temporary read by the final assignment
ArmsStmt == Emitted[Len(Emitted) - 1]
EmittedArms ==
    IF ArmsStmt.k = "If" THEN <<ArmsStmt.body>> \o ArmsStmt.orelse
    ELSE [i \in 1..Len(ArmsStmt.cases) |-> ArmsStmt.cases[i].body]
ResultTemp == Last(Emitted).value.name
AssignsTo(st, n) == st.k = "Assign" /\ st.target.k = "Ident" /\ st.target.name = n
AssignCount(stmts, n) ==
    Cardinality({i \in 1..Len(FlatStmts(stmts)) : AssignsTo(FlatStmts(stmts)[i], n)})

\* C4: an if-, match- or block-expression lowers successfully only if every
\* arm ends in an expression statement or an exit statement (and an
\* if-expression has its else arm); on success an arm that ends in an
\* expression ends with exactly one assignment to the result temporary and
\* an arm that exits assigns nothing to it; an arm with any other final
\* statement makes lowering fail with a 'must have a final expression' error
C4_BlockInExprPosition ==
    (pc = "done" /\ ExprPositionCase) =>
        LET x == ExprPositionNode
            arms == ArmsOf(x)
        IN /\ result = "ok" =>
                /\ \A i \in 1..Len(arms) : EndsInExpr(arms[i]) \/ EndsInExit(arms[i])
                /\ x.k = "If" => x.else # <<>>
                /\ x.k \in {"If", "Match"} =>
                      /\ Len(EmittedArms) = Len(arms)
                      /\ \A i \in 1..Len(arms) :
                            IF EndsInExpr(arms[i])
                            THEN /\ AssignsTo(Last(EmittedArms[i]), ResultTemp)
                                 /\ AssignCount(EmittedArms[i], ResultTemp) = 1
                            ELSE AssignCount(EmittedArms[i], ResultTemp) = 0
           /\ (FinalsOnlyDefect(x) /\ \E i \in 1..Len(arms) : OtherFinal(arms[i])) =>
                /\ result = "err"
                /\ Len(errs) = 1
                /\ errs[1].message \in FinalExprMsgs

\* an if-expression lowered successfully, one arm ending in an expression
\* and the other in an exit
C4_Witness ==
    /\ result = "ok"
    /\ ExprPositionCase
    /\ ExprPositionNode.k = "If"
    /\ EndsInExpr(ExprPositionNode.then)
    /\ EndsInExit(ExprPositionNode.else[1])
    /\ AssignCount(EmittedArms[1], ResultTemp) = 1
    /\ AssignCount(EmittedArms[2], ResultTemp) = 0

(***************************************************************************)
(* Evaluation of the input: the calls to f, g and h that evaluating an     *)
(* operand once performs, every conditional taking the branch br (for a    *)
(* mapped step and for `??`: the operand coalesces).                       *)
(***************************************************************************)
RECURSIVE SourceCalls(_, _), SourceItemCalls(_, _)

SourceCalls(x, br) ==
    CASE x.k \in {"Literal", "Ident", "Placeholder"} -> <<>>
      [] x.k = "Call" ->
           SourceCalls(x.obj, br) \o SourceItemCalls(x.items, br)
           \o (IF x.obj.k = "Ident" /\ x.obj.name \in EffectNames THEN <<x.obj.name>> ELSE <<>>)
      [] x.k \in {"Attribute", "MappedAttribute"} -> SourceCalls(x.obj, br)
      [] x.k \in {"Unary", "Checked"} -> SourceCalls(x.x, br)
      [] x.k = "Binary" /\ x.op \notin {"Pipe", "Coalesce"} ->
           SourceCalls(x.l, br) \o SourceCalls(x.r, br)
      [] x.k = "If" /\ x.then.k = "Expr" /\ x.else # <<>> /\ x.else[1].k = "Expr" ->
           SourceCalls(x.cond, br)
           \o (IF br THEN SourceCalls(x.then.x, br) ELSE SourceCalls(x.else[1].x, br))

SourceItemCalls(items, br) ==
    IF items = <<>> THEN <<>>
    ELSE SourceCalls(items[1].x, br) \o SourceItemCalls(Tail(items), br)

(***************************************************************************)
(* C5.  Single evaluation of the lifted operand.                           *)
(***************************************************************************)
\* the root block is the single expression statement X, X a mapped postfix
\* step or l ?? r
LiftedCase ==
    /\ SingleStmt
    /\ RootStmt.k = "Expr"
    /\ RootStmt.mods = <<>>
    /\ \/ RootStmt.x.k \in {"MappedAttribute", "MappedSubscript", "MappedCall", "MappedThen"}
       \/ RootStmt.x.k = "Binary" /\ RootStmt.x.op = "Coalesce"
LiftedOperand == IF RootStmt.x.k = "Binary" THEN RootStmt.x.l ELSE RootStmt.x.obj

HasPrefix(n, p) == Len(n) >= Len(p) /\ SubSeq(n, 1, Len(p)) = p
TmpPrefix == <<"_", "_", "t", "l", "_", "t", "m", "p", "_">>
IsTmpLoad(v) == v.k = "Ident" /\ v.ctx = "Load" /\ HasPrefix(v.name, TmpPrefix)

\* the places of the emitted IfExpr that stand for the operand: the
\* argument of the test, the branch that returns it, and the receiver of
\* the step
StepReceiver(step) ==
    CASE RootStmt.x.k = "MappedCall" -> step.f
      [] RootStmt.x.k = "MappedThen" -> step.args[1].x
      [] OTHER -> step.obj
OperandUses(v) ==
    IF RootStmt.x.k = "Binary" THEN {v.test.args[1].x, v.else_}
    ELSE {v.test.args[1].x, v.then_, StepReceiver(v.else_)}

\* the emitted assignments of the operand's value to the temporary n
LiftingAssigns(n) ==
    {i \in 1..Len(EmittedFlat) :
        /\ AssignsTo(EmittedFlat[i], n)
        /\ EmittedFlat[i].s = LiftedOperand.s
        /\ EmittedFlat[i].e = LiftedOperand.e}

\* C5: the lifted operand of a mapped postfix step or of `??` is evaluated
\* exactly once on every execution path; an operand that is not a plain
\* identifier is assigned exactly once to a __tl_tmp_ temporary and only
\* that temporary stands in the test and the branches of the IfExpr; an
\* operand that is a plain identifier is used directly, without temporary
C5_LiftedOnce ==
    (result = "ok" /\ LiftedCase) =>
        LET v == Last(Emitted).value
        IN /\ \A br \in BOOLEAN : \A n \in Effects(LiftedOperand) :
                 Count(n, RunTrace(br, TRUE)) = Count(n, SourceCalls(LiftedOperand, br))
           /\ v.k = "IfExpr" =>
                 IF LiftedOperand.k = "Ident"
                 THEN /\ OperandUses(v) = {PyLoad(LiftedOperand.name)}
                      /\ \A i \in 1..Len(EmittedFlat) :
                            ~(EmittedFlat[i].k = "Assign" /\ EmittedFlat[i].target.k = "Ident"
                              /\ HasPrefix(EmittedFlat[i].target.name, TmpPrefix))
                 ELSE \E t \in OperandUses(v) :
                         /\ OperandUses(v) = {t}
                         /\ IsTmpLoad(t)
                         /\ Cardinality(LiftingAssigns(t.name)) = 1

\* a mapped step on the call f() lowered successfully; the run calls f once
C5_Witness ==
    /\ result = "ok"
    /\ LiftedCase
    /\ LiftedOperand.k = "Call"
    /\ Last(Emitted).value.k = "IfExpr"
    /\ Count(Nf, RunTrace(FALSE, TRUE)) = 1

(***************************************************************************)
(* C6.  Deep placeholder guard.                                            *)
(***************************************************************************)
\* the root block is the single expression statement a + C, C a call or
\* subscript on an identifier, a list, a mapping or a slice, and lowering
\* emitted no prelude
ItemsCase ==
    /\ SingleStmt
    /\ RootStmt.k = "Expr"
    /\ RootStmt.mods = <<>>
    /\ RootStmt.x.k = "Binary"
    /\ RootStmt.x.op = "Add"
    /\ RootStmt.x.l.k = "Ident"
    /\ RootStmt.x.r.k \in {"Call", "Subscript", "List", "Mapping", "Slice"}
    /\ RootStmt.x.r.k \in {"Call", "Subscript"} => RootStmt.x.r.obj.k = "Ident"
    /\ Len(Emitted) = 1
Construct == RootStmt.x.r

\* the items of C in source order
ItemExprs(c) ==
    CASE c.k \in {"Call", "Subscript", "List"} -> [i \in 1..Len(c.items) |-> c.items[i].x]
      [] c.k = "Mapping" -> MappingOperands(c.items)
      [] c.k = "Slice" -> c.lo \o c.hi \o c.step

\* the Python node kind C lowers to
LoweredKind(c) ==
    CASE c.k = "Mapping" -> "Dict"
      [] c.k = "Slice" -> "Call"
      [] OTHER -> c.k

\* the lowered items of the emitted node w of C, one per source item
LoweredItems(c, w) ==
    CASE c.k = "Call" -> [i \in 1..Len(w.args) |-> w.args[i].x]
      [] c.k = "List" -> [i \in 1..Len(w.items) |-> w.items[i].x]
      [] c.k = "Mapping" -> MappingOperands(w.items)
      [] c.k = "Subscript" ->
           IF Len(c.items) = 1 /\ c.items[1].ik = "Item" THEN <<w.idx>>
           ELSE [i \in 1..Len(w.idx.items) |-> w.idx.items[i].x]
      [] c.k = "Slice" ->
           (IF c.lo # <<>> THEN <<w.args[1].x>> ELSE <<>>)
           \o (IF c.hi # <<>> THEN <<w.args[2].x>> ELSE <<>>)
           \o (IF c.step # <<>> THEN <<w.args[3].x>> ELSE <<>>)

RECURSIVE DirectPh(_)
\* `$` occurs in x outside every nested construct that has a guard of its own
DirectPh(x) ==
    CASE x.k = "Placeholder" -> TRUE
      [] x.k = "Binary" /\ x.op # "Pipe" -> DirectPh(x.l) \/ DirectPh(x.r)
      [] x.k = "Unary" -> DirectPh(x.x)
      [] OTHER -> FALSE

PhName(x) == temp_var_name(K_ph, x.s)

\* a function of the single parameter named after the start of x
IsPhLambda(w, x) ==
    w.k = "Lambda" /\ Len(w.args) = 1 /\ w.args[1].ik = "Arg" /\ w.args[1].name = PhName(x)

RECURSIVE Mentions(_, _)
\* the Python expression w reads the identifier n outside nested lambdas
Mentions(w, n) ==
    CASE w.k = "Ident" -> w.name = n
      [] w.k = "Binary" -> Mentions(w.l, n) \/ Mentions(w.r, n)
      [] w.k = "Unary" -> Mentions(w.x, n)
      [] OTHER -> FALSE

\* the lowered item em of the source item src of C
ItemLowered(src, em) ==
    IF src.k = "Placeholder" THEN em = PyLoad(PhName(Construct))
    ELSE IF DirectPh(src) THEN IsPhLambda(em, src) /\ Mentions(em.ret, PhName(src))
    ELSE TRUE

\* C6: an item of a call, subscript, list, mapping or slice that is exactly
\* `$` activates the guard of the enclosing construct, which becomes a
\* one-parameter lambda around the whole construct, and gets no guard of
\* its own; any other item containing `$` becomes a lambda of its own whose
\* parameter is named after the item's start, and leaves the guard of the
\* enclosing construct un-activated
C6_DeepGuard ==
    (result = "ok" /\ ItemsCase) =>
        LET c == Construct
            v == Last(Emitted).value
            exact == \E i \in 1..Len(ItemExprs(c)) : ItemExprs(c)[i].k = "Placeholder"
            w == IF exact THEN v.r.ret ELSE v.r
        IN /\ v.k = "Binary"
           /\ exact => IsPhLambda(v.r, c)
           /\ w.k = LoweredKind(c)
           /\ Len(LoweredItems(c, w)) = Len(ItemExprs(c))
           /\ \A i \in 1..Len(ItemExprs(c)) : ItemLowered(ItemExprs(c)[i], LoweredItems(c, w)[i])

\* the call x($, $ + 1): one item is exactly `$`, the other contains `$`
C6_Witness ==
    /\ result = "ok"
    /\ ItemsCase
    /\ Construct.k = "Call"
    /\ Len(Construct.items) = 2
    /\ Construct.items[1].x.k = "Placeholder"
    /\ Construct.items[2].x.k = "Binary"
    /\ IsPhLambda(Last(Emitted).value.r, Construct)
    /\ IsPhLambda(Last(Emitted).value.r.ret.args[2].x, Construct.items[2].x)

(***************************************************************************)
(* C7.  Balance of the placeholder guard stack.                            *)
(***************************************************************************)
\* contexts a guard is entered in: an empty stack, and a stack holding the
\* record of an enclosing guard
EntryCtxs == {NewCtx, PushGuard(NewCtx, <<0, 0>>)}

\* every guarded lowering of an expression of the input that succeeds
\* returns with the stack as deep as it was on entry
GuardReturnsBalanced ==
    \A x \in BlockNodes(root_block) : \A c \in EntryCtxs :
        LET r == transform_with_placeholder_guard(x, c)
        IN r.ok => Len(r.ctx.stack) = Len(c.stack)

\* C7: a successful lowering ends with an empty guard stack, a guard that
\* returns successfully leaves the stack as deep as it found it, and a
\* statement lowered without error leaves the depth of the stack unchanged
C7_GuardsBalanced ==
    /\ [](result = "ok" => tfctx.stack = <<>>)
    /\ [](pc = "run" /\ stmt_idx = 1 => GuardReturnsBalanced)
    /\ [][(errs' = errs /\ result' # "panic") => Len(tfctx'.stack) = Len(tfctx.stack)]_vars

\* a successful lowering whose statement guard was activated and popped
C7_Witness ==
    /\ result = "ok"
    /\ tfctx.stack = <<>>
    /\ Emitted # <<>>
    /\ Last(Emitted).k = "Expr"
    /\ Last(Emitted).value.k = "Lambda"

(***************************************************************************)
(* Names of the emitted Python.                                            *)
(***************************************************************************)
RECURSIVE ExprNames(_), ItemsNames(_), StmtsNames(_)

OptNames(o) == IF o = <<>> THEN {} ELSE ExprNames(o[1])
ArgNames(args) == {args[i].name : i \in 1..Len(args)}
ArgDefaultNames(args) == UNION {OptNames(args[i].dflt) : i \in 1..Len(args)}

\* every identifier an expression reads, writes or binds
ExprNames(x) ==
    CASE x.k = "Ident" -> {x.name}
      [] x.k \in {"Num", "Literal", "None"} -> {}
      [] x.k = "Call" -> ExprNames(x.f) \cup ItemsNames(x.args)
      [] x.k = "Attribute" -> ExprNames(x.obj)
      [] x.k = "Subscript" -> ExprNames(x.obj) \cup ExprNames(x.idx)
      [] x.k = "Slice" -> OptNames(x.lo) \cup OptNames(x.hi) \cup OptNames(x.step)
      [] x.k \in {"Tuple", "List", "Dict"} -> ItemsNames(x.items)
      [] x.k = "Binary" -> ExprNames(x.l) \cup ExprNames(x.r)
      [] x.k \in {"Unary", "Yield", "YieldFrom"} -> ExprNames(x.x)
      [] x.k = "Lambda" -> ArgNames(x.args) \cup ArgDefaultNames(x.args) \cup ExprNames(x.ret)
      [] x.k = "IfExpr" -> ExprNames(x.test) \cup ExprNames(x.then_) \cup ExprNames(x.else_)

ItemsNames(items) ==
    UNION {ExprNames(items[i].x) \cup OptNames(items[i].key) : i \in 1..Len(items)}

\* every identifier of a statement, nested statements excluded
OwnNames(st) ==
    CASE st.k = "Assign" -> ExprNames(st.target) \cup ExprNames(st.value)
      [] st.k \in {"Expr", "Return", "Raise"} -> ExprNames(st.value)
      [] st.k \in {"If", "While"} -> ExprNames(st.test)
      [] st.k = "For" -> ExprNames(st.target) \cup ExprNames(st.iter)
      [] st.k = "Try" ->
           UNION {{st.handlers[i].name} \cup OptNames(st.handlers[i].typ)
                  : i \in 1..Len(st.handlers)}
      [] st.k = "Match" ->
           ExprNames(st.subject) \cup UNION {ExprNames(st.cases[i].pattern) : i \in 1..Len(st.cases)}
      [] st.k = "FnDef" ->
           {st.name} \cup ArgNames(st.args) \cup ArgDefaultNames(st.args)
           \cup UNION {ExprNames(st.decorators[i]) : i \in 1..Len(st.decorators)}
      [] st.k = "ClassDef" ->
           {st.name} \cup ItemsNames(st.bases)
           \cup UNION {ExprNames(st.decorators[i]) : i \in 1..Len(st.decorators)}
      [] st.k \in {"Global", "Nonlocal"} -> Range(st.names)
      [] OTHER -> {}

\* every identifier of a statement list
StmtsNames(stmts) == UNION {OwnNames(FlatStmts(stmts)[i]) : i \in 1..Len(FlatStmts(stmts))}

\* the synthesized names of the output
EmittedTemps == {n \in StmtsNames(Emitted) : HasPrefix(n, <<"_", "_", "t", "l", "_">>)}

LowerChars == {"a", "b", "c", "d", "e", "f", "g", "h", "i", "j", "k", "l", "m",
               "n", "o", "p", "q", "r", "s", "t", "u", "v", "w", "x", "y", "z"}
DigitChars == {"0", "1", "2", "3", "4", "5", "6", "7", "8", "9"}

AllIn(sq, chars) == sq # <<>> /\ \A i \in 1..Len(sq) : sq[i] \in chars

\* lowercase words joined by single underscores: [a-z]+(_[a-z]+)*
RECURSIVE LowerWords(_)
LowerWords(sq) ==
    \/ AllIn(sq, LowerChars)
    \/ \E i \in 2..(Len(sq) - 1) :
          /\ sq[i] = "_"
          /\ AllIn(SubSeq(sq, 1, i - 1), LowerChars)
          /\ LowerWords(SubSeq(sq, i + 1, Len(sq)))

\* n fully matches __tl_<kind>_l[0-9]+c[0-9]+ with a kind accepted by kindOk
MatchesTemp(n, kindOk(_)) ==
    \E i, j \in 1..Len(n) :
        /\ 5 < i /\ i + 2 < j /\ j + 1 < Len(n)
        /\ SubSeq(n, 1, 5) = <<"_", "_", "t", "l", "_">>
        /\ kindOk(SubSeq(n, 6, i))
        /\ n[i + 1] = "_"
        /\ n[i + 2] = "l"
        /\ AllIn(SubSeq(n, i + 3, j), DigitChars)
        /\ n[j + 1] = "c"
        /\ AllIn(SubSeq(n, j + 2, Len(n)), DigitChars)

LowerOnly(kind) == AllIn(kind, LowerChars)

(***************************************************************************)
(* C8.  Shape of synthesized names.                                        *)
(***************************************************************************)
\* C8 as claimed: every synthesized name of the output fully matches
\* __tl_[a-z]+_l[0-9]+c[0-9]+, the kind being lowercase letters only
C8_LowercaseKind == \A n \in EmittedTemps : MatchesTemp(n, LowerOnly)

\* C8 as amended: every synthesized name of the output fully matches
\* __tl_[a-z]+(_[a-z]+)*_l[0-9]+c[0-9]+, the kind being lowercase words
\* joined by underscores
C8_KindOfLowerWords == \A n \in EmittedTemps : MatchesTemp(n, LowerWords)

\* a destructuring assignment lowered successfully: its cursor, list and
\* length temporaries are in the output
C8_Witness ==
    /\ result = "ok"
    /\ temp_var_name(K_des_curs, 0) \in EmittedTemps
    /\ temp_var_name(K_des_len, 0) \in EmittedTemps

(***************************************************************************)
(* C9.  Uniqueness of synthesized names within a scope.                    *)
(***************************************************************************)
RECURSIVE ScopeStmts(_), ScopeBodies(_)
\* the statements of one Python scope: nested statements included, the
\* bodies of function and class definitions excluded
ScopeStmts(stmts) ==
    IF stmts = <<>> THEN <<>>
    ELSE <<stmts[1]>>
         \o (IF stmts[1].k \in {"FnDef", "ClassDef"} THEN <<>>
             ELSE ScopeBodies(NestedBodies(stmts[1])))
         \o ScopeStmts(Tail(stmts))
ScopeBodies(bodies) ==
    IF bodies = <<>> THEN <<>> ELSE ScopeStmts(bodies[1]) \o ScopeBodies(Tail(bodies))

IsTemp(n) == HasPrefix(n, <<"_", "_", "t", "l", "_">>)
IsMatchTemp(n) ==
    HasPrefix(n, <<"_", "_", "t", "l", "_", "m", "a", "t", "c", "h", "e", "x", "p", "_">>)

\* two assignments of one scope to the same temporary come from the same
\* lowering site (the arms of one if-expression, the body and handler of
\* one checked expression): they carry the same span.  The arms of a
\* match-expression carry the spans of their blocks.
NoTempReassigned(stmts) ==
    \A i, j \in 1..Len(ScopeStmts(stmts)) :
        LET a == ScopeStmts(stmts)[i]
            b == ScopeStmts(stmts)[j]
        IN (/\ a.k = "Assign" /\ b.k = "Assign"
            /\ a.target.k = "Ident" /\ b.target.k = "Ident"
            /\ a.target.name = b.target.name
            /\ IsTemp(a.target.name) /\ ~IsMatchTemp(a.target.name))
           => (a.s = b.s /\ a.e = b.e)

TempArgs(args) == {n \in ArgNames(args) : IsTemp(n)}

RECURSIVE Rebinds(_, _), ItemsRebind(_, _), StmtsRebind(_, _)
OptRebinds(o, bound) == o # <<>> /\ Rebinds(o[1], bound)

\* some function inside x binds a parameter named like one in bound, the
\* synthesized parameters of the functions around x
Rebinds(x, bound) ==
    CASE x.k = "Lambda" ->
           \/ ArgNames(x.args) \cap bound # {}
           \/ Rebinds(x.ret, bound \cup TempArgs(x.args))
      [] x.k = "Call" -> Rebinds(x.f, bound) \/ ItemsRebind(x.args, bound)
      [] x.k = "Attribute" -> Rebinds(x.obj, bound)
      [] x.k = "Subscript" -> Rebinds(x.obj, bound) \/ Rebinds(x.idx, bound)
      [] x.k = "Slice" ->
           OptRebinds(x.lo, bound) \/ OptRebinds(x.hi, bound) \/ OptRebinds(x.step, bound)
      [] x.k \in {"Tuple", "List", "Dict"} -> ItemsRebind(x.items, bound)
      [] x.k = "Binary" -> Rebinds(x.l, bound) \/ Rebinds(x.r, bound)
      [] x.k \in {"Unary", "Yield", "YieldFrom"} -> Rebinds(x.x, bound)
      [] x.k = "IfExpr" ->
           Rebinds(x.test, bound) \/ Rebinds(x.then_, bound) \/ Rebinds(x.else_, bound)
      [] OTHER -> FALSE

ItemsRebind(items, bound) ==
    \E i \in 1..Len(items) : Rebinds(items[i].x, bound) \/ OptRebinds(items[i].key, bound)

StmtsRebind(stmts, bound) ==
    \E i \in 1..Len(stmts) :
        LET st == stmts[i]
        IN CASE st.k = "Assign" -> Rebinds(st.value, bound) \/ Rebinds(st.target, bound)
             [] st.k \in {"Expr", "Return", "Raise"} -> Rebinds(st.value, bound)
             [] st.k = "FnDef" ->
                  \/ ArgNames(st.args) \cap bound # {}
                  \/ StmtsRebind(st.body, bound \cup TempArgs(st.args))
             [] st.k = "If" ->
                  \/ Rebinds(st.test, bound)
                  \/ \E b \in 1..Len(NestedBodies(st)) : StmtsRebind(NestedBodies(st)[b], bound)
             [] st.k = "While" -> Rebinds(st.test, bound) \/ StmtsRebind(st.body, bound)
             [] st.k = "For" -> Rebinds(st.iter, bound) \/ StmtsRebind(st.body, bound)
             [] st.k = "Match" ->
                  \/ Rebinds(st.subject, bound)
                  \/ \E b \in 1..Len(NestedBodies(st)) : StmtsRebind(NestedBodies(st)[b], bound)
             [] st.k \in {"Try", "ClassDef"} ->
                  \E b \in 1..Len(NestedBodies(st)) : StmtsRebind(NestedBodies(st)[b], bound)
             [] OTHER -> FALSE

\* the function bodies of the output, each a scope of its own
FnBodies == {EmittedFlat[i].body : i \in {j \in 1..Len(EmittedFlat) : EmittedFlat[j].k = "FnDef"}}

\* C9: temporaries synthesized at different lowering sites and live in the
\* same Python scope have different names: no scope assigns one temporary
\* from two sites, and no synthesized parameter is bound again by a
\* function nested in its scope
C9_TempsUniqueInScope ==
    /\ NoTempReassigned(Emitted)
    /\ \A body \in FnBodies : NoTempReassigned(body)
    /\ ~StmtsRebind(Emitted, {})

(***************************************************************************)
(* Exports.  What the source says a root block exports, read off the       *)
(* statements, against what the lowering left in the context.              *)
(***************************************************************************)
RECURSIVE TargetIdents(_), ItemsIdents(_), SpreadIdents(_)

\* the identifiers a target binds, in the order destructuring reaches
\* them: list items left to right, mapping values left to right and the
\* rest (`**r`) after them
TargetIdents(t) ==
    CASE t.k = "Ident" -> <<t.name>>
      [] t.k = "List" -> ItemsIdents(t.items)
      [] t.k = "Mapping" ->
           ItemsIdents(SelectSeq(t.items, LAMBDA it : it.ik # "Spread"))
           \o SpreadIdents(SelectSeq(t.items, LAMBDA it : it.ik = "Spread"))
      [] OTHER -> <<>>

ItemsIdents(items) ==
    IF items = <<>> THEN <<>> ELSE TargetIdents(items[1].x) \o ItemsIdents(Tail(items))

SpreadIdents(items) == ItemsIdents(items)

RECURSIVE DottedName(_)
\* a.b.c of a trunk
DottedName(trunk) ==
    IF trunk = <<>> THEN <<>>
    ELSE IF Len(trunk) = 1 THEN trunk[1]
    ELSE DottedName(Front(trunk)) \o <<".">> \o Last(trunk)

RECURSIVE LeadingDots(_)
LeadingDots(level) == IF level = 0 THEN <<>> ELSE <<".">> \o LeadingDots(level - 1)

IsExportAssign(st) == st.k = "Assign" /\ st.mods = <<"Export">>
IsExportImport(st) == st.k = "Import" /\ st.reexport

\* the names one top-level statement exports
ExportedBy(st) ==
    IF IsExportAssign(st) THEN TargetIdents(st.lhs)
    ELSE IF IsExportImport(st) /\ ~st.star
    THEN [i \in 1..Len(st.leaves) |->
            IF st.leaves[i].alias # <<>> THEN st.leaves[i].alias[1] ELSE st.leaves[i].name]
    ELSE <<>>

\* the module one top-level statement star-exports
StarExportedBy(st) ==
    IF IsExportImport(st) /\ st.star THEN <<LeadingDots(st.level) \o DottedName(st.trunk)>>
    ELSE <<>>

RECURSIVE ConcatOver(_, _)
ConcatOver(F(_), ss) == IF ss = <<>> THEN <<>> ELSE F(ss[1]) \o ConcatOver(F, Tail(ss))

RootSourceStmts == IF root_block.k = "Stmts" THEN root_block.stmts ELSE <<>>

\* the statement without its export marking
Unexported(st) ==
    IF st.k = "Assign" THEN [st EXCEPT !.mods = <<>>]
    ELSE IF st.k = "Import" THEN [st EXCEPT !.reexport = FALSE]
    ELSE st

\* the step lowers the exporting statement st of the root block
LowersExporting(st) ==
    /\ pc = "run"
    /\ root_block.k = "Stmts"
    /\ stmt_idx <= Len(root_block.stmts)
    /\ st = root_block.stmts[stmt_idx]
    /\ IsExportAssign(st) \/ IsExportImport(st)
    /\ stmt_idx' = stmt_idx + 1
    /\ ok' = ok
    /\ errs' = errs
    /\ result' # "panic"

\* C10: after a successful lowering exports is the concatenation, over the
\* top-level statements in order, of the identifiers of each export
\* assignment and of the effective names of each selective export import;
\* module_star_exports lists the full module names of the `export import *`
\* statements in order; nothing else is appended to either list, and an
\* exporting statement emits exactly what it emits without the export
C10_Exports ==
    /\ [](result = "ok" =>
            /\ tfctx.exports = ConcatOver(ExportedBy, RootSourceStmts)
            /\ tfctx.module_star_exports = ConcatOver(StarExportedBy, RootSourceStmts))
    /\ [][\A st \in Range(RootSourceStmts) :
            LowersExporting(st) =>
              py_stmts' = py_stmts \o SStmt_transform(Unexported(st), tfctx, TRUE).stmts]_vars

\* a lowered program that exports destructured names and a star module
C10_Witness ==
    /\ result = "ok"
    /\ Len(tfctx.exports) >= 2
    /\ tfctx.module_star_exports # <<>>
    /\ \E i \in 1..Len(RootSourceStmts) :
         IsExportAssign(RootSourceStmts[i]) /\ RootSourceStmts[i].lhs.k = "List"

(***************************************************************************)
(* Statements of nested blocks.                                            *)
(***************************************************************************)
\* the blocks that an expression node holds directly
BlocksOfExpr(x) ==
    CASE x.k = "If" -> {x.then} \cup Range(x.else)
      [] x.k = "Match" -> {x.cases[i].body : i \in 1..Len(x.cases)}
      [] x.k \in {"Fn", "Class"} -> {x.body}
      [] x.k = "Block" -> {x.block}
      [] OTHER -> {}

\* the blocks of a statement: its own and those of its expressions
OwnBlocks(st) ==
    (CASE st.k \in {"While", "For"} -> {st.body}
       [] st.k = "Try" -> {st.body} \cup {st.handlers[i].body : i \in 1..Len(st.handlers)}
                          \cup Range(st.finally)
       [] OTHER -> {})
    \cup UNION {BlocksOfExpr(x) : x \in StmtNodes(st)}

RECURSIVE BlockStmts(_)
\* every statement in a block, at any depth
BlockStmts(b) ==
    IF b.k = "Expr" THEN UNION {BlockStmts(bb) : bb \in UNION {BlocksOfExpr(x) : x \in ExprNodes(b.x)}}
    ELSE Range(b.stmts)
         \cup UNION {BlockStmts(bb) : bb \in UNION {OwnBlocks(st) : st \in Range(b.stmts)}}

\* every statement of the program that is not a statement of the root block
NestedStmts(st) == UNION {BlockStmts(bb) : bb \in OwnBlocks(st)}
AllNestedStmts ==
    IF root_block.k = "Expr"
    THEN UNION {BlockStmts(bb) : bb \in UNION {BlocksOfExpr(x) : x \in ExprNodes(root_block.x)}}
    ELSE UNION {NestedStmts(st) : st \in Range(root_block.stmts)}

(***************************************************************************)
(* C11.  Export outside the root block, and two scope modifiers.           *)
(***************************************************************************)
IsTopOnly(st) == IsExportAssign(st) \/ IsExportImport(st)
TwoModifiers(st) == st.k = "Assign" /\ Len(st.mods) > 1

\* a statement lowered in a nested block fails with exactly this error and
\* leaves the context as it was
FailsWith(st, top_level, msg) ==
    \A ctx \in EntryCtxs \cup {tfctx} :
        LET r == SStmt_transform(st, ctx, top_level)
        IN ~r.ok /\ ~r.panic /\ r.errs = <<TfErr(msg, SpanOf(st))>> /\ r.ctx = ctx

\* the root statement that the next step lowers
Attempted == root_block.stmts[stmt_idx]
Attempting == pc = "run" /\ root_block.k = "Stmts" /\ stmt_idx <= Len(root_block.stmts)

\* C11: an export assignment or an export import in a block other than the
\* root block fails with the top-level error and appends nothing to exports
\* or module_star_exports, so that the root statement holding it fails and
\* records nothing; an assignment with more than one scope modifier fails,
\* at any level, before anything is emitted or recorded
C11_ExportTopLevelOnly ==
    /\ [](\A st \in AllNestedStmts :
            /\ IsExportAssign(st) /\ ~TwoModifiers(st) => FailsWith(st, FALSE, MsgExportTop)
            /\ IsExportImport(st) => FailsWith(st, FALSE, MsgReexportTop))
    /\ [](\A st \in AllNestedStmts \cup Range(RootSourceStmts) :
            TwoModifiers(st) => \A tl \in BOOLEAN : FailsWith(st, tl, MsgOneModifier))
    /\ [][Attempting /\ (\E st \in NestedStmts(Attempted) : IsTopOnly(st) \/ TwoModifiers(st))
            => /\ ~ok'
               /\ tfctx'.exports = tfctx.exports
               /\ tfctx'.module_star_exports = tfctx.module_star_exports]_vars
    /\ [][Attempting /\ TwoModifiers(Attempted)
            => ~ok' /\ py_stmts' = py_stmts /\ tfctx' = tfctx]_vars
    /\ []((result = "ok") => \A st \in AllNestedStmts : ~IsTopOnly(st) /\ ~TwoModifiers(st))

\* a root block whose export is followed by a function whose body exports:
\* the lowering failed with the top-level error, only the first export recorded
C11_Witness ==
    /\ result = "err"
    /\ Len(RootSourceStmts) = 2
    /\ \E st \in NestedStmts(RootSourceStmts[2]) : IsExportAssign(st)
    /\ RootSourceStmts[2].k = "Assign" /\ RootSourceStmts[2].rhs.k = "Fn"
    /\ tfctx.exports = <<Nb>>
    /\ \E i \in 1..Len(errs) : errs[i].message = MsgExportTop

(***************************************************************************)
(* C12.  Errors of the statements of a block.                              *)
(***************************************************************************)
\* whether statement i of ss is lowered as the final expression of the block
AsFinalExpr(ss, i) ==
    i = Len(ss) /\ treat_final_as_expr /\ ss[i].k = "Expr" /\ ss[i].mods = <<>>

RECURSIVE ErrsFrom(_, _, _)
\* the errors of the statements i.. of ss, each attempted in turn from the
\* context its predecessors left, in source order
ErrsFrom(ss, ctx, i) ==
    IF i > Len(ss) THEN <<>>
    ELSE LET r == IF AsFinalExpr(ss, i) THEN transform_with_placeholder_guard(ss[i].x, ctx)
                  ELSE SStmt_transform(ss[i], ctx, TRUE)
         IN r.errs \o ErrsFrom(ss, r.ctx, i + 1)

RootLowered == pc \in {"shaped", "done"} /\ result # "panic" /\ RootSourceStmts # <<>>

\* C12: the errors a statement-list block returns are the errors of all of
\* its failing statements in source order, whatever the final statement is
\* and whatever treat_final_as_expr is, and the block is Ok iff there are none
C12_ErrorsAccumulate ==
    RootLowered =>
        /\ errs = ErrsFrom(RootSourceStmts, NewCtx, 1)
        /\ ok <=> ErrsFrom(RootSourceStmts, NewCtx, 1) = <<>>

(***************************************************************************)
(* C13.  Decorator sugar.                                                  *)
(***************************************************************************)
\* the wrappers that the sugar peels
IsWrapper(x) ==
    \/ x.k = "Then"
    \/ x.k = "Binary" /\ x.op = "Pipe"
    \/ x.k = "Call" /\ Len(x.items) = 1 /\ x.items[1].ik = "Arg"
\* what a wrapper applies, and what it is applied to
WrapperDecorator(x) == IF x.k = "Then" THEN x.rhs ELSE IF x.k = "Binary" THEN x.r ELSE x.obj
WrapperInner(x) == IF x.k = "Then" THEN x.obj ELSE IF x.k = "Binary" THEN x.l ELSE x.items[1].x

RECURSIVE Wrappers(_), Innermost(_)
\* the decorators of a right-hand side, outermost first, and what they wrap
Wrappers(x) ==
    IF IsWrapper(x) THEN <<WrapperDecorator(x)>> \o Wrappers(WrapperInner(x)) ELSE <<>>
Innermost(x) == IF IsWrapper(x) THEN Innermost(WrapperInner(x)) ELSE x

\* a single assignment to an identifier, plain or exported
SugarCase ==
    /\ SingleStmt
    /\ RootStmt.k = "Assign" /\ RootStmt.lhs.k = "Ident"
    /\ RootStmt.mods \in {<<>>, <<"Export">>}

\* the decorators of an emitted definition are the lowered wrappers, in order
DecoratedBy(def, ws) ==
    /\ Len(def.decorators) = Len(ws)
    /\ \A i \in 1..Len(ws) :
         def.decorators[i] = transform_with_placeholder_guard(ws[i], NewCtx).expr

\* the output ends in the one definition of name, of the given kind and
\* decorated by ws, and nowhere assigns name
DefinedAs(kind, name, ws) ==
    /\ Emitted # <<>>
    /\ Last(Emitted).k = kind /\ Last(Emitted).name = name
    /\ DecoratedBy(Last(Emitted), ws)
    /\ \A i \in 1..Len(EmittedFlat) : ~AssignsTo(EmittedFlat[i], name)
    /\ \A i \in 1..(Len(Emitted) - 1) : Emitted[i].k \notin {"FnDef", "ClassDef", "Assign"}

\* the ordinary assignment of rhs to the identifier lhs
OrdinaryAssignment(lhs, rhs) ==
    LET v == transform_with_placeholder_guard(rhs, NewCtx)
    IN v.pre \o <<PyAssign(PyIdentE(lhs.name, "Store"), v.expr, SpanOf(lhs))>>

\* C13: an assignment to an identifier whose right-hand side, with its Then,
\* Pipe and one-positional-argument Call wrappers peeled, is an Fn (a Class)
\* lowers to a FnDef (ClassDef) of that name and no Assign, decorated by
\* the lowered wrappers outermost first; any other right-hand side is
\* lowered as the ordinary assignment of the whole right-hand side
C13_DecoratorSugar ==
    (result = "ok" /\ SugarCase) =>
        LET ws == Wrappers(RootStmt.rhs)
            inner == Innermost(RootStmt.rhs)
        IN CASE inner.k = "Fn" -> DefinedAs("FnDef", RootStmt.lhs.name, ws)
             [] inner.k = "Class" -> DefinedAs("ClassDef", RootStmt.lhs.name, ws)
             [] OTHER -> Emitted = OrdinaryAssignment(RootStmt.lhs, RootStmt.rhs)

\* a function behind two different wrappers became a definition with two
\* different decorators
C13_Witness ==
    /\ result = "ok" /\ SugarCase
    /\ Innermost(RootStmt.rhs).k = "Fn"
    /\ Len(Wrappers(RootStmt.rhs)) = 2
    /\ Last(Emitted).k = "FnDef"
    /\ Last(Emitted).decorators[1] # Last(Emitted).decorators[2]

(***************************************************************************)
(* C14.  The assignment `f = cache | memoize(x => x)`.                     *)
(***************************************************************************)
RootIs(st) == RootSourceStmts = Program(<<st>>).stmts

\* the output is one FnDef named f decorated by cache, then memoize
CacheMemoizeDef ==
    /\ Len(Emitted) = 1
    /\ Emitted[1].k = "FnDef" /\ Emitted[1].name = Nf
    /\ Emitted[1].decorators = <<PyLoad(Ncache), PyLoad(Nmemoize)>>

\* lambda x: x
IdLambda == PyLambdaE(<<[ik |-> "Arg", name |-> Nx, dflt |-> <<>>]>>, PyLoad(Nx))

\* C14 as claimed: `f = cache | memoize(x => x)` emits a FnDef named f whose
\* decorators are cache, memoize in that order
C14_PipeIntoCallDecorates ==
    (pc = "done" /\ RootIs(PipeIntoCall)) => (result = "ok" /\ CacheMemoizeDef)

\* C14 as amended: `f = cache | memoize(x => x)` emits no FnDef but the one
\* assignment f = memoize(lambda x: x)(cache), the Pipe being peeled towards
\* its left operand cache; the FnDef named f decorated by cache, then
\* memoize is what `f = (x => x) | memoize | cache` and
\* `f = cache(memoize(x => x))` emit
C14_PipeIntoCallAssigns ==
    /\ (pc = "done" /\ RootIs(PipeIntoCall)) =>
          /\ result = "ok"
          /\ Emitted = <<PyAssign(PyIdentE(Nf, "Store"),
                                  PyCallE(PyCallE(PyLoad(Nmemoize), <<PyArg(IdLambda)>>),
                                          <<PyArg(PyLoad(Ncache))>>),
                                  SpanOf(RootStmt.lhs))>>
    /\ (pc = "done" /\ (RootIs(PipeChain) \/ RootIs(CallChain))) =>
          (result = "ok" /\ CacheMemoizeDef)

C14_Witness ==
    /\ pc = "done" /\ result = "ok"
    /\ RootIs(PipeIntoCall)
    /\ Emitted[1].k = "Assign"

(***************************************************************************)
(* Python ASTs compared up to the names of temporaries and the spans of    *)
(* statements: a temporary is reduced to its kind, a span to nothing.      *)
(***************************************************************************)
LastUnderscore(n) == CHOOSE i \in 1..Len(n) : n[i] = "_" /\ \A j \in (i + 1)..Len(n) : n[j] # "_"
KindOnly(n) == IF IsTemp(n) THEN SubSeq(n, 1, LastUnderscore(n) - 1) ELSE n

RECURSIVE UpToTemps(_), ItemsUpToTemps(_), StmtsUpToTemps(_)

OptUpToTemps(o) == IF o = <<>> THEN <<>> ELSE <<UpToTemps(o[1])>>
ArgsUpToTemps(args) ==
    [i \in 1..Len(args) |->
        [args[i] EXCEPT !.name = KindOnly(@), !.dflt = OptUpToTemps(@)]]

UpToTemps(x) ==
    CASE x.k = "Ident" -> [x EXCEPT !.name = KindOnly(@)]
      [] x.k \in {"Num", "Literal", "None"} -> x
      [] x.k = "Call" -> [x EXCEPT !.f = UpToTemps(@), !.args = ItemsUpToTemps(@)]
      [] x.k = "Attribute" -> [x EXCEPT !.obj = UpToTemps(@)]
      [] x.k = "Subscript" -> [x EXCEPT !.obj = UpToTemps(@), !.idx = UpToTemps(@)]
      [] x.k = "Slice" ->
           [x EXCEPT !.lo = OptUpToTemps(@), !.hi = OptUpToTemps(@), !.step = OptUpToTemps(@)]
      [] x.k \in {"Tuple", "List", "Dict"} -> [x EXCEPT !.items = ItemsUpToTemps(@)]
      [] x.k = "Binary" -> [x EXCEPT !.l = UpToTemps(@), !.r = UpToTemps(@)]
      [] x.k \in {"Unary", "Yield", "YieldFrom"} -> [x EXCEPT !.x = UpToTemps(@)]
      [] x.k = "Lambda" -> [x EXCEPT !.args = ArgsUpToTemps(@), !.ret = UpToTemps(@)]
      [] x.k = "IfExpr" ->
           [x EXCEPT !.test = UpToTemps(@), !.then_ = UpToTemps(@), !.else_ = UpToTemps(@)]

ItemsUpToTemps(items) ==
    [i \in 1..Len(items) |-> [items[i] EXCEPT !.x = UpToTemps(@), !.key = OptUpToTemps(@)]]

StmtsUpToTemps(stmts) ==
    [i \in 1..Len(stmts) |->
        LET st == [stmts[i] EXCEPT !.s = 0, !.e = 0]
            exprs(xs) == [j \in 1..Len(xs) |-> UpToTemps(xs[j])]
            bodies(bs) == [j \in 1..Len(bs) |-> StmtsUpToTemps(bs[j])]
        IN CASE st.k = "Assign" ->
                  [st EXCEPT !.target = UpToTemps(@), !.value = UpToTemps(@)]
             [] st.k \in {"Expr", "Return", "Raise"} -> [st EXCEPT !.value = UpToTemps(@)]
             [] st.k = "If" ->
                  [st EXCEPT !.test = UpToTemps(@), !.body = StmtsUpToTemps(@),
                             !.orelse = bodies(@)]
             [] st.k = "While" -> [st EXCEPT !.test = UpToTemps(@), !.body = StmtsUpToTemps(@)]
             [] st.k = "For" ->
                  [st EXCEPT !.target = UpToTemps(@), !.iter = UpToTemps(@),
                             !.body = StmtsUpToTemps(@)]
             [] st.k = "Try" ->
                  [st EXCEPT !.body = StmtsUpToTemps(@), !.finally = bodies(@),
                             !.handlers = [j \in 1..Len(@) |->
                                 [@[j] EXCEPT !.typ = OptUpToTemps(@), !.name = KindOnly(@),
                                              !.body = StmtsUpToTemps(@)]]]
             [] st.k = "Match" ->
                  [st EXCEPT !.subject = UpToTemps(@),
                             !.cases = [j \in 1..Len(@) |->
                                 [@[j] EXCEPT !.pattern = UpToTemps(@),
                                              !.body = StmtsUpToTemps(@)]]]
             [] st.k = "FnDef" ->
                  [st EXCEPT !.name = KindOnly(@), !.args = ArgsUpToTemps(@),
                             !.body = StmtsUpToTemps(@), !.decorators = exprs(@)]
             [] st.k = "ClassDef" ->
                  [st EXCEPT !.name = KindOnly(@), !.bases = ItemsUpToTemps(@),
                             !.body = StmtsUpToTemps(@), !.decorators = exprs(@)]
             [] st.k \in {"Global", "Nonlocal"} ->
                  [st EXCEPT !.names = [j \in 1..Len(@) |-> KindOnly(@[j])]]
             [] OTHER -> st]

(***************************************************************************)
(* C15.  `x | f` against `f(x)`.                                           *)
(***************************************************************************)
\* a single expression statement `x | f`
PipeCase ==
    /\ SingleStmt
    /\ RootStmt.k = "Expr" /\ RootStmt.mods = <<>>
    /\ RootStmt.x.k = "Binary" /\ RootStmt.x.op = "Pipe"

\* the program `f(x)` for the root statement `x | f`
PipeAsCall == Program(<<SExpr(Call(RootStmt.x.r, <<Arg(RootStmt.x.l)>>), <<>>)>>)

\* what lowering the root block b as the root statement list gives
LoweredAlone(b) == SStmt_transform(b.stmts[1], NewCtx, TRUE)

\* C15: `x | f` and `f(x)` lower alike: both fail or both succeed, and then
\* with the same prelude and the same value Call(f', [Arg(x')]) up to the
\* names of temporaries, whatever the operands are
C15_PipeIdentity ==
    (PipeCase /\ pc = "done") =>
        LET called == LoweredAlone(PipeAsCall)
        IN /\ (result = "ok") = called.ok
           /\ result = "ok" =>
                /\ StmtsUpToTemps(Emitted) = StmtsUpToTemps(called.stmts)
                /\ Last(Emitted).value.k = "Call"

(***************************************************************************)
(* C16.  List destructuring.                                               *)
(***************************************************************************)
IntDec(n) == IF n < 0 THEN <<"-">> \o Dec(0 - n) ELSE Dec(n)

SpreadsOf(items) == {p \in 0..(Len(items) - 1) : items[p + 1].ik = "Spread"}
\* a list target of identifiers with at most one spread
IdentList(t) ==
    /\ t.k = "List"
    /\ Cardinality(SpreadsOf(t.items)) <= 1
    /\ \A i \in 1..Len(t.items) : t.items[i].x.k = "Ident"

\* a single plain assignment to a list target with at most one spread whose
\* items are identifiers or lists of identifiers
ListCase ==
    /\ SingleStmt
    /\ RootStmt.k = "Assign" /\ RootStmt.mods = <<>>
    /\ RootStmt.lhs.k = "List" /\ RootStmt.lhs.items # <<>>
    /\ Cardinality(SpreadsOf(RootStmt.lhs.items)) <= 1
    /\ \A i \in 1..Len(RootStmt.lhs.items) :
         RootStmt.lhs.items[i].x.k = "Ident" \/ IdentList(RootStmt.lhs.items[i].x)

\* what the item at position p (from 0) of the N items is to be assigned
ItemSource(t, p) ==
    LET N == Len(t.items)
        L == PyLoad(temp_var_name(K_des_list, t.s))
        len == PyLoad(temp_var_name(K_des_len, t.s))
    IN IF t.items[p + 1].ik = "Spread"
       THEN PySubscriptE(L, PySliceE(<<PyNum(Dec(p))>>,
                                     <<PyBinaryE("Sub", len, PyNum(IntDec(N - 2)))>>, <<>>),
                         "Load")
       ELSE IF \E q \in SpreadsOf(t.items) : q < p
       THEN PySubscriptE(L, PyNum(IntDec(0 - (N - p))), "Load")
       ELSE PySubscriptE(L, PyNum(Dec(p)), "Load")

\* what the item is assigned to, and the unpacking of a nested target
ItemTarget(item) ==
    IF item.x.k = "Ident" THEN PyIdentE(item.x.name, "Store")
    ELSE PyIdentE(temp_var_name(K_des_curs, item.x.s), "Store")
ItemUnpacking(item) ==
    IF item.x.k = "Ident" THEN <<>> ELSE destructure(NewCtx, item.x, FALSE).post_stmts

RECURSIVE UnpackingsFrom(_, _)
UnpackingsFrom(items, i) ==
    IF i > Len(items) THEN <<>> ELSE ItemUnpacking(items[i]) \o UnpackingsFrom(items, i + 1)

\* the statements the claim describes for `t = rhs`
ListUnpacking(t, rhs) ==
    LET v == transform_with_placeholder_guard(rhs, NewCtx)
        sp == SpanOf(t)
        cursor == temp_var_name(K_des_curs, t.s)
        list_var == temp_var_name(K_des_list, t.s)
        len_var == temp_var_name(K_des_len, t.s)
    IN v.pre
       \o <<PyAssign(PyIdentE(cursor, "Store"), v.expr, sp),
             PyAssign(PyIdentE(list_var, "Store"),
                      PyCallE(PyLoad(N_list), <<PyArg(PyLoad(cursor))>>), sp),
             PyAssign(PyIdentE(len_var, "Store"),
                      PyCallE(PyLoad(N_len), <<PyArg(PyLoad(list_var))>>), sp)>>
       \o [i \in 1..Len(t.items) |-> PyAssign(ItemTarget(t.items[i]), ItemSource(t, i - 1), sp)]
       \o UnpackingsFrom(t.items, 1)

\* C16: a list target is unpacked by the cursor assignment, list_var =
\* list(cursor), len_var = len(list_var), then one assignment per item in
\* source order - list_var[i] before the spread, the slice
\* list_var[i : len_var - (N-2)] for the spread, list_var[-(N-p)] after it -
\* and then the unpacking of the nested targets
C16_ListDestructuring ==
    (pc = "done" /\ ListCase) =>
        (result = "ok" /\ Emitted = ListUnpacking(RootStmt.lhs, RootStmt.rhs))

(***************************************************************************)
(* C17.  The default case of a match-expression.                           *)
(***************************************************************************)
\* a single assignment of a match-expression whose arms all end in an
\* expression or in an exit statement
MatchCase ==
    /\ SingleStmt
    /\ RootStmt.k = "Assign" /\ RootStmt.lhs.k = "Ident" /\ RootStmt.mods = <<>>
    /\ RootStmt.rhs.k = "Match"
    /\ RootStmt.rhs.subject.k = "Ident"
    /\ \A i \in 1..Len(RootStmt.rhs.cases) :
         EndsInExpr(RootStmt.rhs.cases[i].body) \/ EndsInExit(RootStmt.rhs.cases[i].body)

\* a case without a pattern, or with a pattern that lowers to an identifier
IsDefaultCase(c) == c.pat = <<>> \/ c.pat[1].k = "Ident"
LastIsDefault(x) == x.cases # <<>> /\ IsDefaultCase(Last(x.cases))

MissingDefaultMsgs == {MsgMatchDefault, MsgMatchDefaultLast}

\* C17: a match-expression lowers successfully only if its last case is a
\* default case; without one, with no case at all, or with the default-like
\* case at a non-final position only, it fails with a missing-default error
C17_DefaultCaseLast ==
    (pc = "done" /\ MatchCase /\ ~LastIsDefault(RootStmt.rhs)) =>
        /\ result = "err"
        /\ \E i \in 1..Len(errs) : errs[i].message \in MissingDefaultMsgs

(***************************************************************************)
(* C18.  Lowering `$`.                                                     *)
(***************************************************************************)
\* guard records, and the stacks of up to two of them
GuardRecords == [activated : BOOLEAN, s : {0, 3}, e : {4}]
GuardStacks == {<<>>} \cup {<<r>> : r \in GuardRecords}
               \cup {<<r, q>> : r \in GuardRecords, q \in GuardRecords}

\* the `$` nodes of the root block
RootPlaceholders ==
    {n \in (IF root_block.k = "Expr" THEN ExprNodes(root_block.x)
            ELSE UNION {StmtNodes(st) : st \in Range(root_block.stmts)}) : n.k = "Placeholder"}

\* what lowering `$` does in the context ctx
PlaceholderLowers(n, ctx, access_ctx) ==
    LET r == transform_placeholder(ctx, SpanOf(n), access_ctx)
        d == Len(ctx.stack)
    IN IF ctx.stack = <<>>
       THEN /\ ~r.ok /\ ~r.panic
            /\ r.errs = <<TfErr(MsgPlaceholderOutside, SpanOf(n))>>
            /\ r.expr = PyNone
            /\ r.ctx = ctx
       ELSE /\ r.ok /\ r.pre = <<>>
            /\ r.expr = PyIdentE(temp_var_name(K_ph, ctx.stack[d].s), access_ctx)
            /\ Len(r.ctx.stack) = d
            /\ r.ctx.stack[d] = [ctx.stack[d] EXCEPT !.activated = TRUE]
            /\ \A i \in 1..(d - 1) : r.ctx.stack[i] = ctx.stack[i]
            /\ r.ctx.exports = ctx.exports
            /\ r.ctx.module_star_exports = ctx.module_star_exports

\* a root block that is the bare expression `$`, lowered as an expression
BareRootPlaceholder ==
    root_block.k = "Expr" /\ root_block.x.k = "Placeholder" /\ treat_final_as_expr

\* C18: `$` lowered on an empty placeholder stack fails with 'Placeholder
\* expression outside of placeholder context' and yields no expression; on a
\* non-empty stack it sets activated on the top record only, leaves the
\* other records and the depth as they are, and yields the identifier
\* named after the span of the top record
C18_Placeholder ==
    /\ \A n \in RootPlaceholders : \A st \in GuardStacks : \A a \in {"Load", "Store"} :
          PlaceholderLowers(n, [tfctx EXCEPT !.stack = st], a)
    /\ (BareRootPlaceholder /\ pc = "done") =>
          /\ result = "err"
          /\ errs = <<TfErr(MsgPlaceholderOutside, SpanOf(root_block.x))>>
          /\ py_stmts = <<>>
    /\ (result = "ok" /\ SingleStmt /\ RootStmt.k = "Expr" /\ RootStmt.x.k = "Placeholder") =>
          LET ph == temp_var_name(K_ph, RootStmt.x.s)
          IN Last(Emitted).value
               = PyLambdaE(<<[ik |-> "Arg", name |-> ph, dflt |-> <<>>]>>, PyLoad(ph))

\* `a | $ + 1` was lowered: the guard of the right operand was activated and
\* became a lambda, the guard of the statement was not
C18_Witness ==
    /\ result = "ok" /\ PipeCase
    /\ RootStmt.x.r.k = "Binary" /\ RootStmt.x.r.l.k = "Placeholder"
    /\ Last(Emitted).value.k = "Call"
    /\ Last(Emitted).value.f.k = "Lambda"

(***************************************************************************)
(* C19.  The head of a while statement.                                    *)
(***************************************************************************)
WhileCase == SingleStmt /\ RootStmt.k = "While"
\* the condition as Stmt::While lowers it
WhileCondNode == transform_with_placeholder_guard(RootStmt.cond, NewCtx)

\* d defines a zero-argument function that runs the prelude and returns x
RecomputesCondition(d, pre, x) ==
    /\ d.k = "FnDef" /\ d.args = <<>>
    /\ Len(d.body) = Len(pre) + 1
    /\ SubSeq(d.body, 1, Len(pre)) = pre
    /\ Last(d.body).k = "Return"
    /\ Last(d.body).value = x

\* C19: when the lowered condition of a while statement has a prelude, the
\* head of the emitted while is a call of a synthesized function without
\* arguments whose body is that prelude followed by a return of the lowered
\* condition; when it has no prelude the head is the lowered condition
C19_WhileHead ==
    (WhileCase /\ result = "ok") =>
        LET c == WhileCondNode
            w == Last(Emitted)
        IN /\ w.k = "While"
           /\ IF c.pre = <<>> THEN w.test = c.expr /\ Len(Emitted) = 1
              ELSE /\ w.test.k = "Call" /\ w.test.args = <<>> /\ w.test.f.k = "Ident"
                   /\ \E i \in 1..(Len(Emitted) - 1) :
                         /\ Emitted[i].k = "FnDef"
                         /\ Emitted[i].name = w.test.f.name
                         /\ RecomputesCondition(Emitted[i], c.pre, c.expr)

(***************************************************************************)
(* C20.  An if-expression as a statement.                                  *)
(***************************************************************************)
IfStmtCase ==
    /\ SingleStmt /\ ~treat_final_as_expr
    /\ RootStmt.k = "Expr" /\ RootStmt.mods = <<>> /\ RootStmt.x.k = "If"
\* the condition as transform_if_stmt lowers it
IfCondNode == transform_with_placeholder_guard(RootStmt.x.cond, NewCtx)
\* the names assigned by the statements before the last one
AssignedEarlier ==
    LET before == FlatStmts(SubSeq(Emitted, 1, Len(Emitted) - 1))
    IN {before[i].target.name :
          i \in {j \in 1..Len(before) : before[j].k = "Assign" /\ before[j].target.k = "Ident"}}

\* the temporaries an expression reads; the parameter of the lambda a
\* placeholder guard produced is bound, not read
TempsRead(x) ==
    {n \in (IF x.k = "Lambda" THEN ExprNames(x.ret) \ ArgNames(x.args) ELSE ExprNames(x)) :
        IsTemp(n)}

\* C20: an expression statement whose expression is `if` lowers to the
\* prelude of its condition followed by the If statement, so that every
\* temporary the test of the If reads is assigned by an earlier statement
C20_IfStmtPrelude ==
    (IfStmtCase /\ result = "ok") =>
        /\ Last(Emitted).k = "If"
        /\ Last(Emitted).test = IfCondNode.expr
        /\ SubSeq(Emitted, 1, Len(Emitted) - 1) = IfCondNode.pre
        /\ TempsRead(Last(Emitted).test) \subseteq AssignedEarlier

(***************************************************************************)
(* C21.  The final of a shaped block.                                      *)
(***************************************************************************)
\* the root block was shaped and SBlock::transform returned Ok
ShapedOk == pc = "shaped" /\ ok /\ root_block.k = "Stmts"
LastRootStmt == Last(root_block.stmts)

\* C21: an empty statement list yields no statements and the final Nothing;
\* without treat_final_as_expr the final of a non-empty statement list is
\* Never when its last statement is Return, Raise, Break or Continue and
\* Nothing otherwise; with treat_final_as_expr it is Expr for a last
\* expression statement without modifiers, Never for those four kinds and
\* Nothing otherwise
C21_BlockFinal ==
    ShapedOk =>
        IF root_block.stmts = <<>> THEN py_stmts = <<>> /\ final_ = FinalNothing
        ELSE IF LastRootStmt.k \in {"Return", "Raise", "Break", "Continue"}
        THEN final_ = FinalNever
        ELSE IF treat_final_as_expr /\ LastRootStmt.k = "Expr" /\ LastRootStmt.mods = <<>>
        THEN final_.t = "Expr"
        ELSE final_ = FinalNothing

(***************************************************************************)
(* C22.  The receiver of a postfix operation.                              *)
(***************************************************************************)
\* the postfix expressions of the root block
RootPostfixes ==
    {n \in (IF root_block.k = "Expr" THEN ExprNodes(root_block.x)
            ELSE UNION {StmtNodes(st) : st \in Range(root_block.stmts)}) : n.k \in PostfixKinds}
\* the postfix expression lowered inside one enclosing guard
UnderGuard(x) == transform(x, PushGuard(NewCtx, <<0, 0>>))

\* C22: lowering a postfix expression never activates a guard that encloses
\* it: a `$` that is, or is inside, its receiver is resolved against a
\* guard of the receiver
C22_ReceiverIsBoundary ==
    \A x \in RootPostfixes :
        UnderGuard(x).ok =>
            /\ Len(UnderGuard(x).ctx.stack) = 1
            /\ ~UnderGuard(x).ctx.stack[1].activated

(***************************************************************************)
(* C23.  Mapping destructuring.                                            *)
(***************************************************************************)
\* an assignment to a mapping or list pattern whose item targets are
\* identifiers
PatternCase(kind) ==
    /\ SingleStmt
    /\ RootStmt.k = "Assign" /\ RootStmt.mods = <<>>
    /\ RootStmt.lhs.k = kind
    /\ \A i \in 1..Len(RootStmt.lhs.items) : RootStmt.lhs.items[i].x.k = "Ident"
KeyItemsOf(t) == SelectSeq(t.items, LAMBDA it : it.ik # "Spread")
RestsOf(t) == SelectSeq(t.items, LAMBDA it : it.ik = "Spread")
DictVar(t) == temp_var_name(K_des_dict, t.s)
CursorVar(t) == temp_var_name(K_des_curs, t.s)
IsDictCopy(st, t) ==
    /\ st.k = "Assign"
    /\ st.target = PyIdentE(DictVar(t), "Store")
    /\ st.value = PyCallE(PyLoad(N_dict), <<PyArg(PyLoad(CursorVar(t)))>>)
IsPop(st, t) ==
    /\ st.k = "Assign" /\ st.value.k = "Call"
    /\ st.value.f = PyAttributeE(PyLoad(DictVar(t)), N_pop, "Load")
\* st pops the key of the key item it into the target of it
PopsItem(st, t, it) ==
    /\ IsPop(st, t)
    /\ st.target = PyIdentE(it.x.name, "Store")
    /\ st.value.args = <<PyArg(transform(it.key[1], NewCtx).expr)>>
IsRest(st, t) == st.k = "Assign" /\ st.value = PyLoad(DictVar(t))

\* the statements at positions p .. are the copy, the pops in source order
\* and then the rest
DestructuresFrom(p, t) ==
    LET keys == KeyItemsOf(t)
        K == Len(keys)
    IN /\ p + K + Len(RestsOf(t)) <= Len(Emitted)
       /\ IsDictCopy(Emitted[p], t)
       /\ \A i \in 1..K : PopsItem(Emitted[p + i], t, keys[i])
       /\ RestsOf(t) # <<>> =>
             /\ Emitted[p + K + 1].target = PyIdentE(RestsOf(t)[1].x.name, "Store")
             /\ IsRest(Emitted[p + K + 1], t)
       /\ \A q \in 1..Len(Emitted) :
             /\ IsPop(Emitted[q], t) => q \in (p + 1)..(p + K)
             /\ IsRest(Emitted[q], t) => q = p + K + 1

\* C23: a mapping pattern is destructured on a copy, `dict_var =
\* dict(cursor)`, followed by one pop assignment per key item in source
\* order and then, wherever the rest stands among the items, the
\* assignment of dict_var to the rest; a second rest, and a second spread
\* of a list pattern, fail with the multiple-spreads error
C23_MappingDestructuring ==
    /\ (PatternCase("Mapping") /\ result = "ok") =>
          /\ Len(RestsOf(RootStmt.lhs)) <= 1
          /\ \E p \in 1..Len(Emitted) : DestructuresFrom(p, RootStmt.lhs)
    /\ \A kind \in {"Mapping", "List"} :
          (PatternCase(kind) /\ Len(RestsOf(RootStmt.lhs)) > 1 /\ pc = "done") =>
              /\ result = "err"
              /\ errs = <<TfErr(MsgMultipleSpreads, SpanOf(RootStmt.lhs))>>

\* `{1: a, **x, c: b} = ..` was lowered: the rest stands before a key item
\* in the source and after its pop in the output
C23_Witness ==
    /\ PatternCase("Mapping") /\ result = "ok"
    /\ Len(RootStmt.lhs.items) = 3
    /\ RootStmt.lhs.items[2].ik = "Spread"
    /\ \E p \in 1..Len(Emitted) :
          /\ DestructuresFrom(p, RootStmt.lhs)
          /\ IsPop(Emitted[p + 2], RootStmt.lhs)
          /\ IsRest(Emitted[p + 3], RootStmt.lhs)

(***************************************************************************)
(* C24.  Preludes of decorators and of default values.                     *)
(***************************************************************************)
\* the prelude of an expression lowered under a guard of its own
PreludeOf(x) == transform_with_placeholder_guard(x, NewCtx).pre
\* every statement of pre is emitted before the last emitted statement
EmittedBeforeLast(pre) ==
    \A i \in 1..Len(pre) : \E j \in 1..(Len(Emitted) - 1) : Emitted[j] = pre[i]
\* a definition behind decorators, and a function expression that became
\* a lambda
DecoratedDefCase ==
    /\ result = "ok" /\ SugarCase
    /\ Innermost(RootStmt.rhs).k \in {"Fn", "Class"}
    /\ Wrappers(RootStmt.rhs) # <<>>
LambdaCase ==
    /\ result = "ok" /\ SingleStmt
    /\ RootStmt.k = "Expr" /\ RootStmt.x.k = "Fn"
    /\ Last(Emitted).k = "Expr" /\ Last(Emitted).value.k = "Lambda"
DefaultsOf(fn) ==
    {fn.items[i].key[1] : i \in {j \in 1..Len(fn.items) : fn.items[j].key # <<>>}}

\* C24: the prelude statements of the decorators of a definition are emitted
\* before the definition, and those of the default values of a function
\* expression that became a lambda are emitted before the statement that
\* holds the lambda
C24_DefinitionPreludes ==
    /\ DecoratedDefCase =>
          \A i \in 1..Len(Wrappers(RootStmt.rhs)) :
              EmittedBeforeLast(PreludeOf(Wrappers(RootStmt.rhs)[i]))
    /\ LambdaCase =>
          \A d \in DefaultsOf(RootStmt.x) : EmittedBeforeLast(PreludeOf(d))

(***************************************************************************)
(* C25.  What a list pattern with a spread binds.                          *)
(***************************************************************************)
\* the longest source list the emitted subscripts are evaluated on
MaxSourceLen == 5

\* Python reading a decimal literal
DigitVal(c) == CHOOSE d \in 0..9 : DigitChar[d + 1] = c
RECURSIVE ParseDec(_)
ParseDec(ds) == IF ds = <<>> THEN 0 ELSE ParseDec(Front(ds)) * 10 + DigitVal(Last(ds))
ParseInt(v) == IF Head(v) = "-" THEN 0 - ParseDec(Tail(v)) ELSE ParseDec(v)
\* a literal beyond any list length
Huge(v) == Len(v) > 9

Clamp(i, L) == IF i < 0 THEN 0 ELSE IF i > L THEN L ELSE i
\* Python's list[lo:hi] and list[k] on a list of L elements: the positions read
SliceBound(i, L) == Clamp(IF i < 0 THEN i + L ELSE i, L)
\* the end `len_var - c` of the emitted slice
SliceEnd(c, L) == IF Huge(c) THEN 0 ELSE SliceBound(L - ParseInt(c), L)
PositionsRead(src, L) ==
    IF src.idx.k = "Slice"
    THEN SliceBound(ParseInt(src.idx.lo[1].v), L)..(SliceEnd(src.idx.hi[1].r.v, L) - 1)
    ELSE LET k == ParseInt(src.idx.v) IN {IF k < 0 THEN k + L ELSE k}

\* a plain assignment to a list of identifiers with exactly one spread
OneSpreadCase ==
    /\ PatternCase("List")
    /\ Len(RestsOf(RootStmt.lhs)) = 1
SpreadAt == CHOOSE s \in SpreadsOf(RootStmt.lhs.items) : TRUE
\* the emitted assignment that binds the item at position p (from 0)
Binding(p) ==
    CHOOSE j \in 1..Len(Emitted) :
        /\ Emitted[j].k = "Assign"
        /\ Emitted[j].target = PyIdentE(RootStmt.lhs.items[p + 1].x.name, "Store")
IsBound(p) ==
    \E j \in 1..Len(Emitted) :
        /\ Emitted[j].k = "Assign"
        /\ Emitted[j].target = PyIdentE(RootStmt.lhs.items[p + 1].x.name, "Store")
        /\ Emitted[j].value.k = "Subscript"
\* the positions of a source of L elements the item at p is to receive
Share(p, L) ==
    LET N == Len(RootStmt.lhs.items)
        s == SpreadAt
    IN IF p < s THEN {p} ELSE IF p = s THEN s..(s + L - N) ELSE {L - (N - p)}

\* C25: a list pattern of N identifiers with one spread at position s,
\* assigned a source of L >= N-1 elements, binds the items before the spread
\* to the elements 0..s-1, those after it to the last N-s-1 elements and
\* the spread to the L-N+1 elements in between
C25_SpreadPartitions ==
    (OneSpreadCase /\ pc = "done") =>
        /\ result = "ok"
        /\ \A p \in 0..(Len(RootStmt.lhs.items) - 1) :
              /\ IsBound(p)
              /\ \A L \in (Len(RootStmt.lhs.items) - 1)..MaxSourceLen :
                    PositionsRead(Emitted[Binding(p)].value, L) = Share(p, L)

(***************************************************************************)
(* C26.  The constant N-2 of the spread's slice.                           *)
(***************************************************************************)
\* the constant subtracted from the length in the slice bound of the spread
SpreadConstant == Emitted[Binding(SpreadAt)].value.idx.hi[1].r.v

\* C26: for a list pattern of N >= 1 items with a spread, lowering returns
\* normally and the constant subtracted from the length variable in the
\* slice bound of the spread is N-2, computed without wrapping
C26_NoUnderflow ==
    (OneSpreadCase /\ pc = "done") =>
        /\ result = "ok"
        /\ IsBound(SpreadAt)
        /\ SpreadConstant = IntDec(Len(RootStmt.lhs.items) - 2)

(***************************************************************************)
(* C27.  The final of a block shaped without treat_final_as_expr.          *)
(***************************************************************************)
\* the blocks of the root block, itself included
RootBlocks ==
    {root_block}
    \cup (IF root_block.k = "Expr"
          THEN UNION {BlocksOfExpr(x) : x \in ExprNodes(root_block.x)}
          ELSE UNION {OwnBlocks(st) : st \in Range(root_block.stmts)})
    \cup UNION {OwnBlocks(st) : st \in AllNestedStmts}
\* SBlock::transform without treat_final_as_expr returned a final expression
ReturnsFinalExpr(b, is_top_level) ==
    LET tr == SBlock_transform(b, NewCtx, FALSE, is_top_level)
    IN tr.ok /\ tr.final.t = "Expr"
\* a list pattern whose only item is a spread: the unsigned subtraction of
\* destructure_list is the one other panic of the lowering
HasLoneSpread ==
    \E n \in BlockNodes(root_block) :
        n.k = "List" /\ Len(n.items) = 1 /\ n.items[1].ik = "Spread"

\* C27: SBlock::transform without treat_final_as_expr never returns a final
\* of kind Expr, for any block and either is_top_level, so that neither
\* transform_with_final_stmt nor transform_ast panics on one
C27_NoFinalExprPanic ==
    /\ \A b \in RootBlocks : \A top \in BOOLEAN : ~ReturnsFinalExpr(b, top)
    /\ (pc = "shaped" /\ ~treat_final_as_expr) => final_.t # "Expr"
    /\ result = "panic" => (overflow_checks /\ HasLoneSpread)

\* an if-statement whose arm ends in an expression statement was lowered
\* without treat_final_as_expr
C27_Witness ==
    /\ IfStmtCase /\ result = "ok"
    /\ RootStmt.x.then.k = "Stmts"
    /\ Last(RootStmt.x.then.stmts).k = "Expr"
    /\ final_ = FinalNothing

(***************************************************************************)
(* C28.  Short-circuit of `??` and of the mapped postfix steps.            *)
(***************************************************************************)
\* the root block is the single expression statement l ?? r
CoalesceCase ==
    /\ SingleStmt /\ RootStmt.k = "Expr"
    /\ RootStmt.x.k = "Binary" /\ RootStmt.x.op = "Coalesce"
\* the root block is a single mapped postfix step
MappedStepCase ==
    /\ SingleStmt /\ RootStmt.k = "Expr"
    /\ RootStmt.x.k \in MappedKinds
\* the effects of the arguments, indices or then-operand of a postfix step
StepEffects(x) ==
    CASE x.k \in {"MappedCall", "MappedSubscript"} ->
           UNION {Effects(x.items[i].x) : i \in 1..Len(x.items)}
      [] x.k = "MappedThen" -> Effects(x.rhs)
      [] OTHER -> {}

\* C28: in `l ?? r` no effect of r, of its value or of its prelude, is
\* performed by the run in which l does not coalesce; in a mapped postfix
\* step no effect of the arguments, indices or then-operand is performed by
\* the run in which the receiver coalesces
C28_ShortCircuit ==
    /\ (result = "ok" /\ CoalesceCase) =>
          \A n \in Effects(RootStmt.x.r) \ Effects(RootStmt.x.l) :
              Count(n, RunTrace(FALSE, FALSE)) = 0
    /\ (result = "ok" /\ MappedStepCase) =>
          \A n \in StepEffects(RootStmt.x) \ Effects(RootStmt.x.obj) :
              Count(n, RunTrace(TRUE, FALSE)) = 0

(***************************************************************************)
(* C29.  Preludes of assignment targets.                                   *)
(***************************************************************************)
\* a plain assignment to an attribute, a subscript or a mapping pattern
TargetCase ==
    /\ SingleStmt
    /\ RootStmt.k = "Assign" /\ RootStmt.mods = <<>>
    /\ RootStmt.lhs.k \in {"Attribute", "Subscript", "Mapping"}
\* the temporaries the emitted assignment st reads: those of its value and
\* those of a target that is not a plain name
ReadByAssign(st) ==
    TempsRead(st.value) \cup (IF st.target.k = "Ident" THEN {} ELSE TempsRead(st.target))
\* the names assigned by the statements before position j
AssignedBefore(j) ==
    LET before == FlatStmts(SubSeq(Emitted, 1, j - 1))
    IN {before[i].target.name :
          i \in {q \in 1..Len(before) : before[q].k = "Assign" /\ before[q].target.k = "Ident"}}

\* C29: in the output of an assignment whose target is an attribute, a
\* subscript or a mapping pattern, every temporary an emitted assignment
\* reads, in its target or key expression included, is assigned by an
\* earlier emitted statement
C29_TargetPreludesFirst ==
    (result = "ok" /\ TargetCase) =>
        \A j \in 1..Len(Emitted) :
            Emitted[j].k = "Assign" => ReadByAssign(Emitted[j]) \subseteq AssignedBefore(j)

(***************************************************************************)
(* C30.  The placeholder stack after a failed statement.                   *)
(***************************************************************************)
\* the last statement of the root block has a `$` that no guard covers: the
\* receiver of an attribute target, or the type of an except clause
LastHasUnguardedPh ==
    /\ RootStmts # <<>>
    /\ LET st == Last(RootStmts)
       IN \/ /\ st.k = "Assign" /\ st.mods = <<>>
             /\ st.lhs.k = "Attribute" /\ st.lhs.obj.k = "Placeholder"
          \/ /\ st.k = "Try" /\ Len(st.handlers) = 1
             /\ st.handlers[1].types # <<>>
             /\ \E i \in 1..Len(st.handlers[1].types[1].xs) :
                   st.handlers[1].types[1].xs[i].k = "Placeholder"
Reports(es) == \E i \in 1..Len(es) : es[i].message = MsgPlaceholderOutside
\* lowered on its own, with an empty stack, the last statement reports its `$`
ReportedAlone ==
    /\ LastHasUnguardedPh
    /\ Reports(SStmt_transform(Last(RootStmts), NewCtx, TRUE).errs)

\* C30: a guard whose lowering fails removes its record before the error
\* propagates: between the statements of a block the stack holds no record,
\* and a `$` at an unguarded position of a later statement is reported as
\* outside of placeholder context
C30_GuardRestoredOnFailure ==
    /\ pc \in {"run", "shaped"} => tfctx.stack = <<>>
    /\ (pc = "done" /\ ReportedAlone /\ result # "panic") =>
          /\ result = "err"
          /\ Reports(errs)

====
